---- MODULE Spec2Model ----
(***************************************************************************)
(* Model of the resumable interview pipeline of the Lundo therapist        *)
(* backend: the LangGraph knowledge-gathering workflow                     *)
(* (app/workflow/graph.py, app/workflow/nodes.py), the database-backed     *)
(* exploration interview (app/services/exploration_service.py), the        *)
(* message entry points (app/services/agent_service.py) and the safety     *)
(* gate (app/safety).                                                      *)
(***************************************************************************)
EXTENDS Integers, Sequences, FiniteSets, TLC

(***************************************************************************)
(* Bounds of the model (not program constants).                            *)
(***************************************************************************)
\* how far the length of a generated question list may differ from the
\* question_count returned with it
LenSlack == 1
\* number of exploration topics (uuid values) a behaviour may create
MaxTopics == 2
\* rows of exploration_qa a behaviour with concurrent requests may create
MaxRows == 4

\* recent messages a decision about a new topic may meet (the query reads 6)
RecentWindow == 2

\* largest age a lens is scored for (ages start below 0)
MaxAge == 25

\* latest reading of the clock (readings start at 1)
MaxClock == 2
\* records the memory manager may create (uuid values)
MaxIds == 2
\* records the store may hold while its query operations are exercised
MaxHeld == 3
\* records one namespace may hold when it is erased
MaxErased == 1001
\* callers of get_store on one instance at a time
MaxCallers == 4
\* patterns a search may return from each half of the analysis window
MaxPerHalf == 10
\* behavioural patterns followed under add and update
MaxPatterns == 2
\* post-conversation memory updates of a behaviour
MaxConversations == 2

\* answers a caller may supply
Answers == {"a", "b"}

(***************************************************************************)
(* Program constants.                                                      *)
(***************************************************************************)
\* QuestionGenerationResult.question_count: ge=2, le=5
Phase1MinCount == 2
Phase1MaxCount == 5
\* FollowupGenerationResult.question_count: ge=1, le=3
Phase2MinCount == 1
Phase2MaxCount == 3
\* number of questions in the fallback sets of SimpleQuestionAgent and
\* FollowupQuestionAgent
Phase1FallbackCount == 3
Phase2FallbackCount == 2
\* ExplorationService.submit_answer: last exploration / last deep question
LastExplorationQuestion == 5
LastDeepQuestion == 10

VARIABLES
    state,        \* TherapistState of the thread as checkpointed
    wfNext,       \* node the checkpoint will execute next
    wfInterrupt,  \* the checkpoint holds a pending interrupt of wfNext
    wfCall,       \* the call in flight on the thread
    wfIn,         \* external input the graph received from the last call
    wfOut,        \* what the last call returned to its caller
    wfRuns,       \* executions of the phase transitions in this interview
    conv,         \* conversations row (exploration columns), committed
    qa,           \* exploration_qa rows, committed, indexed by primary key
    topicSeq,     \* topic ids generated so far
    tx,           \* per request: the session of a service call in flight
    resp,         \* per request: what the last call returned
    sv,           \* the message being served: caller, delivery, persistence
    gate,         \* the call of ContentSafetyFilter.check_and_filter
    td,           \* the last decision whether a message starts an interview
    sk,           \* the last call of PsychologicalSkill.is_applicable
    mem,          \* the long-term memory store of a child, the clock, and
                  \* the last operation on the store
    an,           \* the state of the analysis stage of one run: the graph
                  \* state after routing and the agent calls done on it
    bk            \* one MemoryBackends instance and the callers of its
                  \* get_store

wfVars == <<state, wfNext, wfInterrupt, wfCall, wfIn, wfOut, wfRuns>>
exVars == <<conv, qa, topicSeq, tx, resp>>
svVars == <<sv, gate>>
fnVars == <<td, sk, mem, an, bk>>
vars == <<state, wfNext, wfInterrupt, wfCall, wfIn, wfOut, wfRuns,
          conv, qa, topicSeq, tx, resp, sv, gate, td, sk, mem, an, bk>>

(***************************************************************************)
(* The workflow graph.                                                     *)
(***************************************************************************)
AnalysisNodes == {"parse_input", "route_to_agents", "call_behavior_analyst",
                  "apply_psychological_perspective", "call_material_consultant"}

\* text of the i-th question of a phase
QuestionText(phase, i) == 100 * phase + i

\* the question list a generation call returns with n entries
QuestionList(phase, n) == [i \in 1..n |-> QuestionText(phase, i)]

\* text of the i-th question of the literal fallback set of a phase
FallbackText(phase, i) == 100 * phase + 50 + i

\* the literal fallback question set of a phase
FallbackQuestions(phase) ==
    [i \in 1..(IF phase = 1 THEN Phase1FallbackCount ELSE Phase2FallbackCount)
        |-> FallbackText(phase, i)]

\* SimpleQuestionAgent.generate_questions letting the failure of its
\* generation call escape
generate_questions_NoFallback(llm_ok, count, n) ==
    IF llm_ok
    THEN [raised |-> FALSE, question_count |-> count, questions |-> QuestionList(1, n)]
    ELSE [raised |-> TRUE, question_count |-> 0, questions |-> << >>]

\* SimpleQuestionAgent.generate_questions: the structured result of the
\* generation call, or the fallback set when the call times out or raises
generate_questions(llm_ok, count, n) ==
    IF llm_ok
    THEN [raised |-> FALSE, question_count |-> count, questions |-> QuestionList(1, n)]
    ELSE [raised |-> FALSE, question_count |-> Phase1FallbackCount,
          questions |-> FallbackQuestions(1)]

\* FollowupQuestionAgent.generate_followups
generate_followups(llm_ok, count, n) ==
    IF llm_ok
    THEN [raised |-> FALSE, question_count |-> count, questions |-> QuestionList(2, n)]
    ELSE [raised |-> FALSE, question_count |-> Phase2FallbackCount,
          questions |-> FallbackQuestions(2)]

\* lengths of the question list that may come with question_count = c
ListLens(c) == {0} \cup {n \in (c - LenSlack)..(c + LenSlack) : n >= 0}

initial_state(is_first_message, last_report_topic) ==
    [ knowledge_gathering_phase     |-> "none",
      is_knowledge_gathering_active |-> FALSE,
      phase_1_questions      |-> << >>,
      phase_1_current_index  |-> 0,
      phase_1_answers        |-> << >>,
      phase_1_question_count |-> 0,
      phase_2_questions      |-> << >>,
      phase_2_current_index  |-> 0,
      phase_2_answers        |-> << >>,
      phase_2_question_count |-> 0,
      gathered_knowledge     |-> << >>,
      is_first_message       |-> is_first_message,
      last_report_topic      |-> last_report_topic,
      report_just_given      |-> last_report_topic ]

(***************************************************************************)
(* Nodes and conditional edges, as functions of the state they receive.    *)
(***************************************************************************)
\* check_knowledge_gathering_needed; topic_changed is the answer of
\* _detect_topic_change (FALSE when its call fails)
check_knowledge_gathering_needed(s, topic_changed) ==
    LET should_gather ==
            IF s.is_first_message THEN TRUE
            ELSE IF s.report_just_given /\ s.last_report_topic
                 THEN topic_changed
                 ELSE FALSE
    IN [s EXCEPT !.is_knowledge_gathering_active = should_gather,
                 !.knowledge_gathering_phase =
                     IF should_gather THEN "phase_1" ELSE "none"]

\* route_after_knowledge_check with its branches swapped
route_after_knowledge_check_Swapped(s) ==
    IF s.is_knowledge_gathering_active
    THEN "parse_input"
    ELSE "generate_phase_1_questions"

route_after_knowledge_check(s) ==
    IF s.is_knowledge_gathering_active
    THEN "generate_phase_1_questions"
    ELSE "parse_input"

\* generate_phase_1_questions with the result {question_count, questions}
generate_phase_1_questions(s, count, questions) ==
    [s EXCEPT !.phase_1_questions = questions,
              !.phase_1_question_count = count,
              !.phase_1_current_index = 0,
              !.phase_1_answers = << >>,
              !.knowledge_gathering_phase = "phase_1"]

\* guard of ask_phase_1_question: raises ValueError when it fails
phase_1_state_valid(s) ==
    /\ Len(s.phase_1_questions) > 0
    /\ s.phase_1_current_index < Len(s.phase_1_questions)

\* the interrupt payload of ask_phase_1_question
phase_1_interrupt_data(s) ==
    [ type |-> "knowledge_gathering_question",
      phase |-> 1,
      question_number |-> s.phase_1_current_index + 1,
      total_questions |-> s.phase_1_question_count,
      question |-> s.phase_1_questions[s.phase_1_current_index + 1] ]

\* ask_phase_1_question recording every answer against the first question
ask_phase_1_question_PairsFirstQuestion(s, answer) ==
    [s EXCEPT !.phase_1_answers =
                  Append(s.phase_1_answers,
                         [question |-> s.phase_1_questions[1],
                          answer |-> answer]),
              !.phase_1_current_index = s.phase_1_current_index + 1]

\* ask_phase_1_question after interrupt() has returned the answer
ask_phase_1_question(s, answer) ==
    [s EXCEPT !.phase_1_answers =
                  Append(s.phase_1_answers,
                         [question |-> s.phase_1_questions[s.phase_1_current_index + 1],
                          answer |-> answer]),
              !.phase_1_current_index = s.phase_1_current_index + 1]

\* check_phase_1_complete comparing with <=
check_phase_1_complete_OffByOne(s) ==
    IF s.phase_1_current_index <= s.phase_1_question_count
    THEN "ask_phase_1_question"
    ELSE "generate_phase_2_questions"

check_phase_1_complete(s) ==
    IF s.phase_1_current_index < s.phase_1_question_count
    THEN "ask_phase_1_question"
    ELSE "generate_phase_2_questions"

generate_phase_2_questions(s, count, questions) ==
    [s EXCEPT !.phase_2_questions = questions,
              !.phase_2_question_count = count,
              !.phase_2_current_index = 0,
              !.phase_2_answers = << >>,
              !.knowledge_gathering_phase = "phase_2"]

\* ask_phase_2_question indexes the list unguarded: IndexError when this fails
phase_2_state_valid(s) ==
    s.phase_2_current_index < Len(s.phase_2_questions)

phase_2_interrupt_data(s) ==
    [ type |-> "knowledge_gathering_question",
      phase |-> 2,
      question_number |-> s.phase_2_current_index + 1,
      total_questions |-> s.phase_2_question_count,
      question |-> s.phase_2_questions[s.phase_2_current_index + 1] ]

\* ask_phase_2_question keeping only the newest answer
ask_phase_2_question_DropsAnswers(s, answer) ==
    [s EXCEPT !.phase_2_answers =
                  << [question |-> s.phase_2_questions[s.phase_2_current_index + 1],
                      answer |-> answer] >>,
              !.phase_2_current_index = s.phase_2_current_index + 1]

ask_phase_2_question(s, answer) ==
    [s EXCEPT !.phase_2_answers =
                  Append(s.phase_2_answers,
                         [question |-> s.phase_2_questions[s.phase_2_current_index + 1],
                          answer |-> answer]),
              !.phase_2_current_index = s.phase_2_current_index + 1]

\* check_phase_2_complete with the comparison reversed
check_phase_2_complete_Reversed(s) ==
    IF s.phase_2_current_index > s.phase_2_question_count
    THEN "ask_phase_2_question"
    ELSE "compile_gathered_knowledge"

check_phase_2_complete(s) ==
    IF s.phase_2_current_index < s.phase_2_question_count
    THEN "ask_phase_2_question"
    ELSE "compile_gathered_knowledge"

\* KnowledgeCompiler.compile returning None when the generation call fails
KnowledgeCompiler_compile_NoFallback(phase_1_qa, phase_2_qa, llm_ok) ==
    IF llm_ok
    THEN << [ key_insights |-> "compiled", raw_qa |-> phase_1_qa \o phase_2_qa ] >>
    ELSE << >>

\* KnowledgeCompiler.compile: the compiled record, or the basic record of
\* its except branch when the generation call fails
KnowledgeCompiler_compile(phase_1_qa, phase_2_qa, llm_ok) ==
    << [ key_insights |-> IF llm_ok THEN "compiled" ELSE "compilation_error",
         raw_qa |-> phase_1_qa \o phase_2_qa ] >>

compile_gathered_knowledge(s, llm_ok) ==
    [s EXCEPT !.gathered_knowledge =
                  KnowledgeCompiler_compile(s.phase_1_answers, s.phase_2_answers, llm_ok),
              !.knowledge_gathering_phase = "complete",
              !.is_knowledge_gathering_active = FALSE]

\* the fixed edges of create_analysis_workflow
analysis_edge(node) ==
    CASE node = "generate_phase_1_questions" -> "ask_phase_1_question"
      [] node = "generate_phase_2_questions" -> "ask_phase_2_question"
      [] node = "compile_gathered_knowledge" -> "parse_input"
      [] node = "parse_input" -> "route_to_agents"
      [] node = "route_to_agents" -> "call_behavior_analyst"
      [] node = "call_behavior_analyst" -> "apply_psychological_perspective"
      [] node = "apply_psychological_perspective" -> "call_material_consultant"
      [] node = "call_material_consultant" -> "__end__"

\* the fixed edges create_therapist_workflow adds after the analysis nodes
therapist_edge(node) ==
    CASE node = "call_material_consultant" -> "synthesize_response"
      [] node = "synthesize_response" -> "safety_check"
      [] node = "safety_check" -> "format_output"
      [] node = "format_output" -> "__end__"
      [] OTHER -> analysis_edge(node)

(***************************************************************************)
(* The safety gate: app/safety/triggers.py, disclaimers.py and             *)
(* content_filter.py.  A text is represented by the set of keyword         *)
(* families it matches; a content is the sequence of its blocks.           *)
(***************************************************************************)
Flags == {"emergency", "harm", "medical_advice", "medical", "developmental_concern"}

\* SafetyTrigger._assess_severity testing the MODERATE branch first
assess_severity_ModerateFirst(flags) ==
    IF flags = {}
    THEN [level |-> "safe", requires_review |-> FALSE,
          recommendation |-> "proceed_normally"]
    ELSE IF "medical" \in flags \/ "developmental_concern" \in flags
    THEN [level |-> "moderate", requires_review |-> TRUE,
          recommendation |-> "add_disclaimer_and_review"]
    ELSE IF "emergency" \in flags \/ "harm" \in flags
    THEN [level |-> "critical", requires_review |-> TRUE,
          recommendation |-> "escalate_immediately"]
    ELSE [level |-> "high", requires_review |-> TRUE,
          recommendation |-> "require_professional_consultation"]

\* SafetyTrigger._assess_severity
assess_severity(flags) ==
    IF flags = {}
    THEN [level |-> "safe", requires_review |-> FALSE,
          recommendation |-> "proceed_normally"]
    ELSE IF "emergency" \in flags \/ "harm" \in flags
    THEN [level |-> "critical", requires_review |-> TRUE,
          recommendation |-> "escalate_immediately"]
    ELSE IF "medical_advice" \in flags
            \/ ("developmental_concern" \in flags /\ "medical" \in flags)
    THEN [level |-> "high", requires_review |-> TRUE,
          recommendation |-> "require_professional_consultation"]
    ELSE IF "medical" \in flags \/ "developmental_concern" \in flags
    THEN [level |-> "moderate", requires_review |-> TRUE,
          recommendation |-> "add_disclaimer_and_review"]
    ELSE [level |-> "moderate", requires_review |-> TRUE,
          recommendation |-> "add_disclaimer_and_review"]

\* SafetyTrigger.detect_sensitive_content of a text matching the families
detect_sensitive_content(flags) ==
    LET a == assess_severity(flags)
    IN [sensitivity_level |-> a.level, requires_review |-> a.requires_review,
        flags |-> flags, recommendation |-> a.recommendation]

\* the blocks of s, as a set
Blocks(s) == {s[i] : i \in DOMAIN s}

\* number of occurrences of block b in s
Occurrences(s, b) == Cardinality({i \in DOMAIN s : s[i] = b})

get_disclaimers_for_flags(flags) ==
    LET d0 == << "general" >>
        d1 == d0 \o (IF "emergency" \in flags THEN << "emergency" >> ELSE << >>)
        d2 == d1 \o (IF "harm" \in flags
                     THEN << "emergency", "professional_referral" >> ELSE << >>)
        d3 == d2 \o (IF "medical_advice" \in flags \/ "medical" \in flags
                     THEN << "medical" >> ELSE << >>)
        d4 == d3 \o (IF "developmental_concern" \in flags
                     THEN << "developmental" >> ELSE << >>)
    IN d4 \o (IF ("medical_advice" \in flags \/ "harm" \in flags)
                  /\ "professional_referral" \notin Blocks(d4)
              THEN << "professional_referral" >> ELSE << >>)

\* format_response_with_disclaimers returning the content alone
format_response_with_disclaimers_Dropped(content, flags) == content

\* format_response_with_disclaimers(content, flags, prepend=False)
format_response_with_disclaimers(content, flags) ==
    IF flags = {} THEN content
    ELSE content \o get_disclaimers_for_flags(flags)

\* ContentSafetyFilter._get_rejection_message
get_rejection_message(reason) ==
    IF reason THEN << "rejection_message", "review_note" >>
    ELSE << "rejection_message" >>

\* the decisions a reviewer may resume with (InterruptDecision): the type,
\* the edited content, and whether a reason is given
Decisions ==
    { [type |-> "approve", edited_content |-> << >>, reason |-> FALSE],
      [type |-> "edit", edited_content |-> << "edited" >>, reason |-> FALSE],
      [type |-> "reject", edited_content |-> << >>, reason |-> FALSE],
      [type |-> "reject", edited_content |-> << >>, reason |-> TRUE] }

NoDecision == [type |-> "none", edited_content |-> << >>, reason |-> FALSE]

\* the other values a resume may carry: nothing (None or an empty dict),
\* and a dict whose type is none of approve, edit and reject
UnrecognisedDecisions ==
    { NoDecision,
      [type |-> "escalate", edited_content |-> << >>, reason |-> FALSE] }

\* ContentSafetyFilter._process_human_decision ignoring an edit
process_human_decision_IgnoresEdit(content, decision) ==
    IF decision.type = "reject" THEN get_rejection_message(decision.reason)
    ELSE content

\* ContentSafetyFilter._process_human_decision
process_human_decision(content, decision) ==
    IF decision.type = "none" THEN content
    ELSE IF decision.type = "approve" THEN content
    ELSE IF decision.type = "edit" THEN decision.edited_content
    ELSE IF decision.type = "reject" THEN get_rejection_message(decision.reason)
    ELSE content

NoPayload == [content |-> << >>, sensitivity_level |-> "-", flags |-> {},
              recommendation |-> "-"]

IdleGate == [pc |-> "idle", content |-> << >>, user_flags |-> {},
             response_flags |-> {}, enable_hitl |-> FALSE, safety_flags |-> {},
             requires_review |-> FALSE, filtered_content |-> << >>,
             was_interrupted |-> FALSE, human_decision |-> NoDecision,
             detection_details |-> [user_detection |-> detect_sensitive_content({}),
                                    response_detection |-> detect_sensitive_content({})],
             payload |-> NoPayload]

\* ContentSafetyFilter.check_and_filter up to its interrupt() or, when it
\* does not interrupt, up to its return; auto_add_disclaimers is True
check_and_filter(content, user_flags, response_flags, enable_hitl) ==
    LET user_detection == detect_sensitive_content(user_flags)
        response_detection == detect_sensitive_content(response_flags)
        all_flags == user_detection.flags \cup response_detection.flags
        requires_review == response_detection.requires_review
                              \/ user_detection.requires_review
        should_interrupt_now == enable_hitl /\ requires_review
        disclaimed == format_response_with_disclaimers(content, all_flags)
    IN [pc |-> IF should_interrupt_now THEN "review" ELSE "returned",
        content |-> content,
        user_flags |-> user_flags,
        response_flags |-> response_flags,
        enable_hitl |-> enable_hitl,
        safety_flags |-> all_flags,
        requires_review |-> requires_review,
        filtered_content |-> IF should_interrupt_now \/ all_flags # {}
                             THEN disclaimed ELSE content,
        was_interrupted |-> FALSE,
        human_decision |-> NoDecision,
        detection_details |-> [user_detection |-> user_detection,
                               response_detection |-> response_detection],
        payload |-> IF should_interrupt_now
                    THEN [content |-> disclaimed,
                          sensitivity_level |-> response_detection.sensitivity_level,
                          flags |-> all_flags,
                          recommendation |-> response_detection.recommendation]
                    ELSE NoPayload]

\* ContentSafetyFilter.check_and_filter after interrupt() returned the decision
check_and_filter_resumed(g, decision) ==
    [g EXCEPT !.pc = "returned",
              !.was_interrupted = TRUE,
              !.human_decision = decision,
              !.filtered_content = process_human_decision(g.filtered_content, decision)]

(***************************************************************************)
(* Execution of the workflow on one thread: run_therapist_workflow_        *)
(* streaming drives the compiled graph; every node execution is one        *)
(* checkpointed step.                                                      *)
(***************************************************************************)
NoOut == [status |-> "none", phase |-> 0, question_number |-> 0, question |-> 0]
ErrorOut == [status |-> "error", phase |-> 0, question_number |-> 0, question |-> 0]
CompletedOut == [status |-> "completed", phase |-> 0, question_number |-> 0, question |-> 0]
SuspendedOut(d) == [status |-> "suspended", phase |-> d.phase,
                    question_number |-> d.question_number, question |-> d.question]

NoRuns == [generate_phase_2_questions |-> 0, compile_gathered_knowledge |-> 0]

\* the message a call serves: the entry point it came through, whether it
\* is the first message of its conversation, what the caller has received
\* of the response, and the assistant message saved
NewMessage(caller, first) ==
    [caller |-> caller, first |-> first,
     delivered |-> << >>, persisted |-> << >>]

\* the message and response texts of a workflow run, as the pair of their
\* flag sets: nothing flagged, or a message about harm answered with a
\* response that mentions a clinical term
RunTexts == { << {}, {} >>, << {"emergency", "harm"}, {"medical"} >> }

\* the response text synthesize_response / synthesize_response_streaming
\* produce (the generated text or the fixed fallback text)
SynthesizedResponse == << "response" >>

\* the graph the entry point compiles
graph_edge(caller, node) ==
    IF caller = "send_message" THEN therapist_edge(node) ELSE analysis_edge(node)

\* a node of the graph is about to execute
AtNode(n) == wfCall = "running" /\ wfNext = n /\ ~wfInterrupt

\* run_therapist_workflow_streaming: a new message on the thread
Run(is_first_message, last_report_topic) ==
    /\ wfCall = "idle"
    /\ state' = initial_state(is_first_message, last_report_topic)
    /\ wfNext' = "check_knowledge_gathering_needed"
    /\ wfInterrupt' = FALSE
    /\ wfCall' = "running"
    /\ wfIn' = "-"
    /\ wfOut' = NoOut
    /\ wfRuns' = NoRuns
    /\ sv' = NewMessage("workflow", is_first_message)
    /\ gate' = IdleGate
    /\ UNCHANGED <<exVars, fnVars>>

\* AgentService.send_message_stream -> supervisor.process_message_stream ->
\* run_therapist_workflow_streaming: is_first_message and last_report_topic
\* are not passed and take their defaults, whatever the conversation holds
SendMessageStream(first) ==
    /\ wfCall = "idle"
    /\ state' = initial_state(FALSE, FALSE)
    /\ wfNext' = "check_knowledge_gathering_needed"
    /\ wfInterrupt' = FALSE
    /\ wfCall' = "running"
    /\ wfIn' = "-"
    /\ wfOut' = NoOut
    /\ wfRuns' = NoRuns
    /\ sv' = NewMessage("send_message_stream", first)
    /\ gate' = IdleGate
    /\ UNCHANGED <<exVars, fnVars>>

\* AgentService.send_message -> supervisor.process_message ->
\* run_therapist_workflow: the initial state has is_first_message False and
\* last_report_topic None
SendMessage(first) ==
    /\ wfCall = "idle"
    /\ state' = initial_state(FALSE, FALSE)
    /\ wfNext' = "check_knowledge_gathering_needed"
    /\ wfInterrupt' = FALSE
    /\ wfCall' = "running"
    /\ wfIn' = "-"
    /\ wfOut' = NoOut
    /\ wfRuns' = NoRuns
    /\ sv' = NewMessage("send_message", first)
    /\ gate' = IdleGate
    /\ UNCHANGED <<exVars, fnVars>>

CheckKnowledgeGatheringNeeded(topic_changed) ==
    /\ AtNode("check_knowledge_gathering_needed")
    /\ state' = check_knowledge_gathering_needed(state, topic_changed)
    /\ wfNext' = route_after_knowledge_check(state')
    /\ UNCHANGED <<wfInterrupt, wfCall, wfIn, wfOut, wfRuns>>
    /\ UNCHANGED <<exVars, svVars, fnVars>>

\* the node generate_phase_1_questions: an exception of the agent is
\* logged and raised again, which fails the run
GeneratePhase1Questions(llm_ok, count, n) ==
    /\ AtNode("generate_phase_1_questions")
    /\ LET result == generate_questions(llm_ok, count, n)
       IN IF result.raised
          THEN /\ wfCall' = "idle"
               /\ wfOut' = ErrorOut
               /\ UNCHANGED <<state, wfNext>>
          ELSE /\ state' = generate_phase_1_questions(state, result.question_count,
                                                      result.questions)
               /\ wfNext' = analysis_edge(wfNext)
               /\ UNCHANGED <<wfCall, wfOut>>
    /\ UNCHANGED <<wfInterrupt, wfIn, wfRuns>>
    /\ UNCHANGED <<exVars, svVars, fnVars>>

\* ask_phase_1_question up to interrupt(): the interrupt is checkpointed,
\* or the node raises ValueError and the run fails
AskPhase1Question ==
    /\ AtNode("ask_phase_1_question")
    /\ IF phase_1_state_valid(state)
       THEN /\ wfInterrupt' = TRUE
            /\ wfCall' = "yielding"
            /\ UNCHANGED wfOut
       ELSE /\ wfCall' = "idle"
            /\ wfOut' = ErrorOut
            /\ UNCHANGED wfInterrupt
    /\ UNCHANGED <<state, wfNext, wfIn, wfRuns>>
    /\ UNCHANGED <<exVars, svVars, fnVars>>

\* AskPhase2Question tolerating a question list that is too short: the
\* phase is left for the next stage
AskPhase2Question_SkipsInvalid ==
    /\ AtNode("ask_phase_2_question")
    /\ IF phase_2_state_valid(state)
       THEN /\ wfInterrupt' = TRUE
            /\ wfCall' = "yielding"
            /\ UNCHANGED <<wfOut, wfNext>>
       ELSE /\ wfNext' = "compile_gathered_knowledge"
            /\ UNCHANGED <<wfInterrupt, wfCall, wfOut>>
    /\ UNCHANGED <<state, wfIn, wfRuns>>
    /\ UNCHANGED <<exVars, svVars, fnVars>>

\* ask_phase_2_question up to interrupt(): the interrupt is checkpointed,
\* or indexing the question list raises IndexError and the run fails
AskPhase2Question ==
    /\ AtNode("ask_phase_2_question")
    /\ IF phase_2_state_valid(state)
       THEN /\ wfInterrupt' = TRUE
            /\ wfCall' = "yielding"
            /\ UNCHANGED wfOut
       ELSE /\ wfCall' = "idle"
            /\ wfOut' = ErrorOut
            /\ UNCHANGED wfInterrupt
    /\ UNCHANGED <<state, wfNext, wfIn, wfRuns>>
    /\ UNCHANGED <<exVars, svVars, fnVars>>

\* the "__interrupt__" event reaches run_therapist_workflow_streaming,
\* which yields the question to the caller and returns
YieldInterrupt ==
    /\ wfCall = "yielding"
    /\ wfOut' = SuspendedOut(IF wfNext = "ask_phase_1_question"
                             THEN phase_1_interrupt_data(state)
                             ELSE phase_2_interrupt_data(state))
    /\ wfCall' = "idle"
    /\ UNCHANGED <<state, wfNext, wfInterrupt, wfIn, wfRuns>>
    /\ UNCHANGED <<exVars, svVars, fnVars>>

\* resume(thread, answer) while a question is pending: the interrupted
\* node continues with the answer and the conditional edge is taken
ResumePhase1(answer) ==
    /\ wfCall = "idle" /\ wfInterrupt /\ wfNext = "ask_phase_1_question"
    /\ state' = ask_phase_1_question(state, answer)
    /\ wfNext' = check_phase_1_complete(state')
    /\ wfInterrupt' = FALSE
    /\ wfCall' = "running"
    /\ wfIn' = answer
    /\ wfOut' = NoOut
    /\ UNCHANGED wfRuns
    /\ UNCHANGED <<exVars, svVars, fnVars>>

ResumePhase2(answer) ==
    /\ wfCall = "idle" /\ wfInterrupt /\ wfNext = "ask_phase_2_question"
    /\ state' = ask_phase_2_question(state, answer)
    /\ wfNext' = check_phase_2_complete(state')
    /\ wfInterrupt' = FALSE
    /\ wfCall' = "running"
    /\ wfIn' = answer
    /\ wfOut' = NoOut
    /\ UNCHANGED wfRuns
    /\ UNCHANGED <<exVars, svVars, fnVars>>

\* resume(thread, answer) with no pending suspension: rejected, and the
\* answer never reaches the graph
ResumeRejected(answer) ==
    /\ wfCall = "idle" /\ ~wfInterrupt
    /\ wfOut' = ErrorOut
    /\ UNCHANGED <<state, wfNext, wfInterrupt, wfIn, wfCall, wfRuns>>
    /\ UNCHANGED <<exVars, svVars, fnVars>>

\* the node generate_phase_2_questions: an exception of the agent would
\* propagate and fail the run
GeneratePhase2Questions(llm_ok, count, n) ==
    /\ AtNode("generate_phase_2_questions")
    /\ LET result == generate_followups(llm_ok, count, n)
       IN IF result.raised
          THEN /\ wfCall' = "idle"
               /\ wfOut' = ErrorOut
               /\ UNCHANGED <<state, wfNext, wfRuns>>
          ELSE /\ state' = generate_phase_2_questions(state, result.question_count,
                                                      result.questions)
               /\ wfNext' = analysis_edge(wfNext)
               /\ wfRuns' = [wfRuns EXCEPT !.generate_phase_2_questions = @ + 1]
               /\ UNCHANGED <<wfCall, wfOut>>
    /\ UNCHANGED <<wfInterrupt, wfIn>>
    /\ UNCHANGED <<exVars, svVars, fnVars>>

CompileGatheredKnowledge(llm_ok) ==
    /\ AtNode("compile_gathered_knowledge")
    /\ state' = compile_gathered_knowledge(state, llm_ok)
    /\ wfNext' = analysis_edge(wfNext)
    /\ wfRuns' = [wfRuns EXCEPT !.compile_gathered_knowledge = @ + 1]
    /\ UNCHANGED <<wfInterrupt, wfCall, wfIn, wfOut>>
    /\ UNCHANGED <<exVars, svVars, fnVars>>

\* nodes whose subagent or generation call is not guarded by try/except
RaisingNodes == {"call_behavior_analyst", "apply_psychological_perspective",
                 "call_material_consultant"}

\* AnalysisNode with a node that waits for external input when its call fails
AnalysisNode_Suspends(call_ok) ==
    /\ wfCall = "running" /\ ~wfInterrupt /\ wfNext \in AnalysisNodes
    /\ IF call_ok \/ wfNext \notin RaisingNodes
       THEN /\ wfNext' = graph_edge(sv.caller, wfNext)
            /\ UNCHANGED <<wfCall, wfOut, wfInterrupt>>
       ELSE /\ wfCall' = "idle"
            /\ wfInterrupt' = TRUE
            /\ wfOut' = [status |-> "suspended", phase |-> 0,
                         question_number |-> 0, question |-> 0]
            /\ UNCHANGED wfNext
    /\ UNCHANGED <<state, wfIn, wfRuns>>
    /\ UNCHANGED <<exVars, svVars, fnVars>>

\* parse_input .. call_material_consultant; call_ok = FALSE is a call that
\* raises, which fails the run at that node
AnalysisNode(call_ok) ==
    /\ wfCall = "running" /\ ~wfInterrupt /\ wfNext \in AnalysisNodes
    /\ IF call_ok \/ wfNext \notin RaisingNodes
       THEN /\ wfNext' = graph_edge(sv.caller, wfNext)
            /\ UNCHANGED <<wfCall, wfOut>>
       ELSE /\ wfCall' = "idle"
            /\ wfOut' = ErrorOut
            /\ UNCHANGED wfNext
    /\ UNCHANGED <<state, wfInterrupt, wfIn, wfRuns>>
    /\ UNCHANGED <<exVars, svVars, fnVars>>

\* run_therapist_workflow_streaming after the analysis graph reached END:
\* every token of synthesize_response_streaming is yielded to the caller as
\* it is produced
StreamSynthesis ==
    /\ AtNode("__end__") /\ sv.caller # "send_message"
    /\ wfCall' = "streamed"
    /\ sv' = [sv EXCEPT !.delivered = SynthesizedResponse]
    /\ UNCHANGED <<state, wfNext, wfInterrupt, wfIn, wfOut, wfRuns, gate>>
    /\ UNCHANGED <<exVars, fnVars>>

\* run_therapist_workflow_streaming: filter_response(full_response,
\* user_message, enable_hitl=False), then the "done" event with the final
\* state; a direct caller of the function has its result here
FilterResponse(user_flags, response_flags) ==
    /\ wfCall = "streamed"
    /\ gate' = check_and_filter(sv.delivered, user_flags, response_flags, FALSE)
    /\ IF sv.caller = "workflow"
       THEN wfCall' = "idle" /\ wfOut' = CompletedOut
       ELSE wfCall' = "done_event" /\ UNCHANGED wfOut
    /\ UNCHANGED <<state, wfNext, wfInterrupt, wfIn, wfRuns, sv>>
    /\ UNCHANGED <<exVars, fnVars>>

\* AgentService.send_message_stream on the "done" event: the assistant
\* message is saved with the tokens it collected, and "done" is yielded
SendMessageStreamDone ==
    /\ wfCall = "done_event"
    /\ sv' = [sv EXCEPT !.persisted = sv.delivered]
    /\ wfCall' = "idle"
    /\ wfOut' = CompletedOut
    /\ UNCHANGED <<state, wfNext, wfInterrupt, wfIn, wfRuns, gate>>
    /\ UNCHANGED <<exVars, fnVars>>

\* the node synthesize_response of create_therapist_workflow: the
\* generation call is inside try/except, so the node never raises
SynthesizeResponse ==
    /\ AtNode("synthesize_response")
    /\ wfNext' = therapist_edge(wfNext)
    /\ UNCHANGED <<state, wfInterrupt, wfCall, wfIn, wfOut, wfRuns>>
    /\ UNCHANGED <<exVars, svVars, fnVars>>

\* the node safety_check calling the gate with human-in-the-loop enabled
SafetyCheck_HitlEnabled(user_flags, response_flags) ==
    /\ AtNode("safety_check")
    /\ gate' = check_and_filter(SynthesizedResponse, user_flags, response_flags, TRUE)
    /\ wfNext' = therapist_edge(wfNext)
    /\ UNCHANGED <<state, wfInterrupt, wfCall, wfIn, wfOut, wfRuns, sv>>
    /\ UNCHANGED <<exVars, fnVars>>

\* the node safety_check: filter_response(synthesized_response,
\* current_concern, enable_hitl=False)
SafetyCheck(user_flags, response_flags) ==
    /\ AtNode("safety_check")
    /\ gate' = check_and_filter(SynthesizedResponse, user_flags, response_flags, FALSE)
    /\ wfNext' = therapist_edge(wfNext)
    /\ UNCHANGED <<state, wfInterrupt, wfCall, wfIn, wfOut, wfRuns, sv>>
    /\ UNCHANGED <<exVars, fnVars>>

\* the node format_output: final_response is the filtered response
FormatOutput ==
    /\ AtNode("format_output")
    /\ wfNext' = therapist_edge(wfNext)
    /\ UNCHANGED <<state, wfInterrupt, wfCall, wfIn, wfOut, wfRuns>>
    /\ UNCHANGED <<exVars, svVars, fnVars>>

\* the therapist graph reached END: AgentService.send_message saves the
\* assistant message with final_response and returns it
SendMessageReturn ==
    /\ AtNode("__end__") /\ sv.caller = "send_message"
    /\ sv' = [sv EXCEPT !.persisted = gate.filtered_content,
                        !.delivered = gate.filtered_content]
    /\ wfCall' = "idle"
    /\ wfOut' = CompletedOut
    /\ UNCHANGED <<state, wfNext, wfInterrupt, wfIn, wfRuns, gate>>
    /\ UNCHANGED <<exVars, fnVars>>

\* ContentSafetyFilter.check_and_filter called on its own with any texts
\* and with human-in-the-loop enabled or not; the filter keeps nothing
\* between calls, so a behaviour follows one call
CheckAndFilter(user_flags, response_flags, enable_hitl) ==
    /\ gate.pc = "idle" /\ wfCall = "idle"
    /\ gate' = check_and_filter(SynthesizedResponse, user_flags, response_flags,
                                enable_hitl)
    /\ UNCHANGED <<wfVars, exVars, sv, fnVars>>

\* Command(resume=decision): interrupt() returns the reviewer's decision
\* and check_and_filter runs to its return
ResumeReview(decision) ==
    /\ gate.pc = "review"
    /\ gate' = check_and_filter_resumed(gate, decision)
    /\ UNCHANGED <<wfVars, exVars, sv, fnVars>>

\* the process dies while a call is in flight: only the checkpoint remains
WorkflowCrash ==
    /\ wfCall # "idle"
    /\ wfCall' = "idle"
    /\ UNCHANGED <<state, wfNext, wfInterrupt, wfIn, wfOut, wfRuns>>
    /\ UNCHANGED <<exVars, svVars, fnVars>>

(***************************************************************************)
(* The exploration interview of ExplorationService.  conv and qa are the   *)
(* committed rows; tx[p] is the database session of request p, whose       *)
(* changes reach the rows only at db.commit().                             *)
(***************************************************************************)
Procs == {1, 2}
\* conversation ids a request may name; only ExistingConvs have a row
ConvIds == {1, 2}
ExistingConvs == {1}

IdleTx == [pc |-> "idle", op |-> "none", cid |-> 0, answer |-> "-",
           row |-> 0, topic |-> 0, forq |-> 0]
NoResp == [status |-> "none", op |-> "none", question_number |-> 0, topic |-> 0]
ErrorResp(op) == [status |-> "error", op |-> op, question_number |-> 0, topic |-> 0]

\* rows of the topic that have no answer yet
Unanswered(topic) ==
    {i \in DOMAIN qa : qa[i].topic_id = topic /\ qa[i].answer = "-"}

\* the rows the "current unanswered question" query may return:
\* order_by(question_number).limit(1)
CurrentQA(topic) ==
    {i \in Unanswered(topic) :
        \A j \in Unanswered(topic) : qa[i].question_number <= qa[j].question_number}

\* question numbers of the current topic that were shown to a caller
ShownQuestions ==
    {qa[i].question_number : i \in {j \in DOMAIN qa : qa[j].topic_id = conv.current_exploration_topic_id}}

\* the questions a caller may be answering
CallerQuestions == IF ShownQuestions = {} THEN {0} ELSE ShownQuestions

\* submit_answer finds a pending question for the conversation
HasPendingQuestion(cid) ==
    /\ cid \in ExistingConvs
    /\ conv.current_exploration_topic_id # 0
    /\ CurrentQA(conv.current_exploration_topic_id) # {}

\* start_exploration up to the generation of the first question
StartBegin(p, cid, child_found) ==
    /\ tx[p].pc = "idle"
    /\ topicSeq < MaxTopics
    /\ IF cid \in ExistingConvs /\ child_found
       THEN /\ topicSeq' = topicSeq + 1
            /\ tx' = [tx EXCEPT ![p] = [IdleTx EXCEPT !.pc = "started", !.op = "start",
                                                     !.cid = cid, !.topic = topicSeq + 1]]
       ELSE /\ tx' = [tx EXCEPT ![p] = [IdleTx EXCEPT !.pc = "rejected", !.op = "start",
                                                     !.cid = cid]]
            /\ UNCHANGED topicSeq
    /\ UNCHANGED <<conv, qa, resp>>
    /\ UNCHANGED <<wfVars, svVars, fnVars>>

\* start_exploration: db.add(qa_record); await db.commit()
StartCommit(p) ==
    /\ tx[p].pc = "started"
    /\ conv' = [exploration_phase |-> "exploration_questions",
                current_exploration_topic_id |-> tx[p].topic]
    /\ qa' = Append(qa, [topic_id |-> tx[p].topic, question_type |-> "exploration",
                         question_number |-> 1, answer |-> "-"])
    /\ tx' = [tx EXCEPT ![p].pc = "committed"]
    /\ UNCHANGED <<topicSeq, resp>>
    /\ UNCHANGED <<wfVars, svVars, fnVars>>

\* submit_answer up to the generation of the next question; forq is the
\* number of the question the caller is answering, which the request
\* does not carry
SubmitBegin(p, cid, answer, forq) ==
    /\ tx[p].pc = "idle"
    /\ IF HasPendingQuestion(cid)
       THEN \E r \in CurrentQA(conv.current_exploration_topic_id) :
                tx' = [tx EXCEPT ![p] = [pc |-> "answered", op |-> "submit", cid |-> cid,
                                         answer |-> answer, row |-> r,
                                         topic |-> conv.current_exploration_topic_id,
                                         forq |-> forq]]
       ELSE tx' = [tx EXCEPT ![p] = [IdleTx EXCEPT !.pc = "rejected", !.op = "submit",
                                                   !.cid = cid, !.answer = answer,
                                                   !.forq = forq]]
    /\ UNCHANGED <<conv, qa, topicSeq, resp>>
    /\ UNCHANGED <<wfVars, svVars, fnVars>>

\* the phase submit_answer leaves the conversation in after question n
phase_after_answer(n, phase) ==
    IF n < LastExplorationQuestion THEN phase
    ELSE IF n = LastExplorationQuestion THEN "deep_questions"
    ELSE IF n < LastDeepQuestion THEN phase
    ELSE "completed"

\* the rows submit_answer adds after question n of the topic was answered
rows_after_answer(n, topic) ==
    IF n < LastExplorationQuestion
    THEN << [topic_id |-> topic, question_type |-> "exploration",
             question_number |-> n + 1, answer |-> "-"] >>
    ELSE IF n = LastExplorationQuestion
    THEN << [topic_id |-> topic, question_type |-> "deep",
             question_number |-> LastExplorationQuestion + 1, answer |-> "-"] >>
    ELSE IF n < LastDeepQuestion
    THEN << [topic_id |-> topic, question_type |-> "deep",
             question_number |-> n + 1, answer |-> "-"] >>
    ELSE << >>

\* submit_answer: the answer, the next question and the phase are committed
SubmitCommit(p) ==
    /\ tx[p].pc = "answered"
    /\ LET n == qa[tx[p].row].question_number
       IN /\ qa' = [qa EXCEPT ![tx[p].row].answer = tx[p].answer]
                      \o rows_after_answer(n, tx[p].topic)
          /\ conv' = [conv EXCEPT !.exploration_phase = phase_after_answer(n, @)]
    /\ tx' = [tx EXCEPT ![p].pc = "committed"]
    /\ UNCHANGED <<topicSeq, resp>>
    /\ UNCHANGED <<wfVars, svVars, fnVars>>

\* the response start_exploration / submit_answer construct after the commit
ResponseOf(t) ==
    IF t.op = "start"
    THEN [status |-> "question", op |-> "start", question_number |-> 1,
          topic |-> t.topic]
    ELSE LET n == qa[t.row].question_number
         IN IF n < LastDeepQuestion
            THEN [status |-> "question", op |-> "submit", question_number |-> n + 1,
                  topic |-> t.topic]
            ELSE [status |-> "complete", op |-> "submit", question_number |-> 0,
                  topic |-> t.topic]

\* CanReturn with the response returned before the commit
CanReturn_BeforeCommit(p) == tx[p].pc \in {"started", "answered", "committed"}

\* the service call may return its response
CanReturn(p) == tx[p].pc = "committed"

Return(p) ==
    /\ CanReturn(p)
    /\ resp' = [resp EXCEPT ![p] = ResponseOf(tx[p])]
    /\ tx' = [tx EXCEPT ![p] = IdleTx]
    /\ UNCHANGED <<conv, qa, topicSeq>>
    /\ UNCHANGED <<wfVars, svVars, fnVars>>

\* Reject with the rejection answered as a success
Reject_NoOpSuccess(p) ==
    /\ tx[p].pc = "rejected"
    /\ resp' = [resp EXCEPT ![p] = [status |-> "complete", op |-> tx[p].op,
                                     question_number |-> 0, topic |-> 0]]
    /\ tx' = [tx EXCEPT ![p] = IdleTx]
    /\ UNCHANGED <<conv, qa, topicSeq>>
    /\ UNCHANGED <<wfVars, svVars, fnVars>>

\* raise ValueError(...): the call is rejected
Reject(p) ==
    /\ tx[p].pc = "rejected"
    /\ resp' = [resp EXCEPT ![p] = ErrorResp(tx[p].op)]
    /\ tx' = [tx EXCEPT ![p] = IdleTx]
    /\ UNCHANGED <<conv, qa, topicSeq>>
    /\ UNCHANGED <<wfVars, svVars, fnVars>>

\* GenerationFails with the session committed instead of rolled back: the
\* changes made before the generation call reach the rows
GenerationFails_CommitsSession(p) ==
    /\ \/ tx[p].pc = "started"
       \/ tx[p].pc = "answered" /\ qa[tx[p].row].question_number < LastDeepQuestion
    /\ IF tx[p].pc = "started"
       THEN /\ conv' = [exploration_phase |-> "exploration_questions",
                        current_exploration_topic_id |-> tx[p].topic]
            /\ qa' = qa
       ELSE /\ conv' = [conv EXCEPT !.exploration_phase =
                           phase_after_answer(qa[tx[p].row].question_number, @)]
            /\ qa' = [qa EXCEPT ![tx[p].row].answer = tx[p].answer]
    /\ resp' = [resp EXCEPT ![p] = ErrorResp(tx[p].op)]
    /\ tx' = [tx EXCEPT ![p] = IdleTx]
    /\ UNCHANGED topicSeq
    /\ UNCHANGED <<wfVars, svVars, fnVars>>

\* the question generation call raises: get_db rolls the session back
GenerationFails(p) ==
    /\ \/ tx[p].pc = "started"
       \/ tx[p].pc = "answered" /\ qa[tx[p].row].question_number < LastDeepQuestion
    /\ resp' = [resp EXCEPT ![p] = ErrorResp(tx[p].op)]
    /\ tx' = [tx EXCEPT ![p] = IdleTx]
    /\ UNCHANGED <<conv, qa, topicSeq>>
    /\ UNCHANGED <<wfVars, svVars, fnVars>>

\* the server dies while the call is in flight: the session is lost
ServiceCrash(p) ==
    /\ tx[p].pc # "idle"
    /\ tx' = [tx EXCEPT ![p] = IdleTx]
    /\ UNCHANGED <<conv, qa, topicSeq, resp>>
    /\ UNCHANGED <<wfVars, svVars, fnVars>>

(***************************************************************************)
(* The decision whether a message starts a new interview:                  *)
(* TopicDetector.detect behind ExplorationService.should_trigger_          *)
(* exploration, and _detect_topic_change behind the node                   *)
(* check_knowledge_gathering_needed.  A confidence is a number of tenths.  *)
(***************************************************************************)
\* TopicDetectionResult.confidence: ge=0.0, le=1.0
Confidences == 0..10
\* should_trigger_exploration: detection.confidence >= 0.7
ConfidenceThreshold == 7
\* confidence TopicDetector.detect reports for an explicit indicator
IndicatorConfidence == 9

\* how the classification call judges a message
Judgments == [is_new_topic : BOOLEAN, confidence : Confidences]

\* the exploration_phase values a conversation row may hold
ExplorationPhases == {"not_started", "exploration_questions", "deep_questions",
                      "completed"}

\* TopicDetector.detect: recent_messages is the number of recent messages,
\* indicator whether the message contains a phrase of NEW_TOPIC_INDICATORS,
\* judgment the structured result of the classification call
TopicDetector_detect(recent_messages, indicator, judgment) ==
    IF recent_messages = 0
    THEN [is_new_topic |-> TRUE, confidence |-> 10]
    ELSE IF indicator
    THEN [is_new_topic |-> TRUE, confidence |-> IndicatorConfidence]
    ELSE judgment

\* ExplorationService.should_trigger_exploration for a conversation row
\* found or not, holding exploration_phase
should_trigger_exploration(found, exploration_phase, recent_messages, indicator, judgment) ==
    IF ~found THEN FALSE
    ELSE IF exploration_phase \in {"exploration_questions", "deep_questions"} THEN FALSE
    ELSE LET detection == TopicDetector_detect(recent_messages, indicator, judgment)
         IN detection.is_new_topic /\ detection.confidence >= ConfidenceThreshold

\* _detect_topic_change: the call is asked for the single word NEW or
\* FOLLOWUP; False when the call raises
detect_topic_change(judgment, llm_ok) ==
    IF llm_ok THEN judgment.is_new_topic ELSE FALSE

NoTopicDecision ==
    [path |-> "none", recent_messages |-> 0, indicator |-> FALSE,
     judgment |-> [is_new_topic |-> FALSE, confidence |-> 0], starts |-> FALSE]

\* ExplorationService.should_trigger_exploration(db, conversation_id, message)
ShouldTriggerExploration(found, exploration_phase, recent_messages, indicator, judgment) ==
    /\ td' = [path |-> "should_trigger_exploration",
              recent_messages |-> recent_messages,
              indicator |-> indicator,
              judgment |-> judgment,
              starts |-> should_trigger_exploration(found, exploration_phase,
                                                    recent_messages, indicator, judgment)]
    /\ UNCHANGED <<wfVars, exVars, svVars, sk, mem, an, bk>>

\* the node check_knowledge_gathering_needed on the initial state of a
\* message: the first message of a conversation meets no earlier message
KnowledgeGatheringDecision(is_first_message, last_report_topic, indicator, judgment, llm_ok) ==
    /\ td' = [path |-> "check_knowledge_gathering_needed",
              recent_messages |-> IF is_first_message THEN 0 ELSE 1,
              indicator |-> indicator,
              judgment |-> judgment,
              starts |-> check_knowledge_gathering_needed(
                             initial_state(is_first_message, last_report_topic),
                             detect_topic_change(judgment, llm_ok)
                         ).is_knowledge_gathering_active]
    /\ UNCHANGED <<wfVars, exVars, svVars, sk, mem, an, bk>>

(***************************************************************************)
(* The skill applicability scorer: PsychologicalSkill.is_applicable        *)
(* (app/agents/skills/base.py).  A relevance score is the fraction         *)
(* num / den.                                                              *)
(***************************************************************************)
\* the keywords of the model; "Tantrum" differs from "tantrum" in case only
Words == {"tantrum", "Tantrum", "reward", "discipline", "habit", "routine", "chart"}

\* str.lower()
lower(w) == IF w = "Tantrum" THEN "tantrum" ELSE w

\* set(k.lower() for k in words)
lower_set(words) == {lower(w) : w \in words}

\* SkillMetadata of the lenses of the model: a lens with two keywords, one
\* with five, one without keywords, one declared in capitals, and one for
\* all ages from 0
Lenses ==
    { [name |-> "two_keywords", applicable_ages |-> << 2, 18 >>,
       best_for |-> {"discipline"}, keywords |-> {"tantrum", "reward"}],
      [name |-> "five_keywords", applicable_ages |-> << 2, 18 >>,
       best_for |-> {"discipline"},
       keywords |-> {"tantrum", "reward", "habit", "routine", "chart"}],
      [name |-> "no_keywords", applicable_ages |-> << 0, 18 >>,
       best_for |-> {"discipline"}, keywords |-> {}],
      [name |-> "capitals", applicable_ages |-> << 3, 17 >>,
       best_for |-> {}, keywords |-> {"Tantrum", "reward"}] }

\* the ages a lens is scored for
Ages == (0 - 1)..MaxAge

\* the age check of is_applicable with the bounds excluded
age_in_range_Exclusive(lens, child_age) ==
    lens.applicable_ages[1] < child_age /\ child_age < lens.applicable_ages[2]

\* min_age <= child_age <= max_age
age_in_range(lens, child_age) ==
    lens.applicable_ages[1] <= child_age /\ child_age <= lens.applicable_ages[2]

\* relevance_score > 0.2 read as "at least 0.2"
above_threshold_Inclusive(num, den) == 10 * num >= 2 * den

\* relevance_score > 0.2
above_threshold(num, den) == 10 * num > 2 * den

\* PsychologicalSkill.is_applicable: (is_applicable, relevance_score), the
\* score being num / den
is_applicable(lens, child_age, issue_keywords) ==
    IF ~age_in_range(lens, child_age)
    THEN [is_applicable |-> FALSE, num |-> 0, den |-> 1]
    ELSE LET skill_keywords == lower_set(lens.keywords)
             issue_keywords_set == lower_set(issue_keywords)
             matches == skill_keywords \cap issue_keywords_set
             n == Cardinality(skill_keywords)
             \* len(matches) / len(skill_keywords) if skill_keywords else 0.0,
             \* in units of 1 / den
             den == IF n = 0 THEN 10 ELSE 10 * n
             base == IF n = 0 THEN 0 ELSE 10 * Cardinality(matches)
             best_for_matches == lower_set(lens.best_for) \cap issue_keywords_set
             boosted == IF best_for_matches # {} THEN base + 3 * (den \div 10)
                        ELSE base
             num == IF boosted > den THEN den ELSE boosted
         IN [is_applicable |-> above_threshold(num, den), num |-> num, den |-> den]

NoSkillCall ==
    [called |-> FALSE, lens |-> "none", child_age |-> 0, issue_keywords |-> {},
     result |-> [is_applicable |-> FALSE, num |-> 0, den |-> 1]]

\* a call of lens.is_applicable(child_age, issue_keywords); the scorer
\* keeps nothing between calls, so a behaviour follows one call
IsApplicable(lens, child_age, issue_keywords) ==
    /\ ~sk.called
    /\ sk' = [called |-> TRUE, lens |-> lens.name, child_age |-> child_age,
              issue_keywords |-> issue_keywords,
              result |-> is_applicable(lens, child_age, issue_keywords)]
    /\ UNCHANGED <<wfVars, exVars, svVars, td, mem, an, bk>>

(***************************************************************************)
(* The long-term memory of a child: MemoryManager (app/memory/manager.py)  *)
(* over MemoryBackends (app/memory/backends.py), and the post-conversation *)
(* update of SupervisorAgent (app/agents/supervisor.py).  The store holds  *)
(* one record per (memory type, key); a time is a reading of the clock,    *)
(* 0 standing for None.                                                    *)
(***************************************************************************)
MemoryTypes == {"behavioral_patterns", "developmental_history",
                "successful_interventions", "triggers_and_responses",
                "timeline_events", "family_context"}

Times == 1..MaxClock

\* the key str(uuid.uuid4()) of the n-th generated id, and the fixed keys
\* of the post-conversation update
UuidKey(n) == << "uuid", n >>
MainKey == << "main", 0 >>
EmotionalTriggersKey == << "emotional_triggers", 0 >>

\* a stored value; kind "none" is the absent value None
NoValue ==
    [kind |-> "none", frequency |-> "-", severity |-> "-", notes |-> "-",
     triggers |-> {}, first_observed |-> 0, last_observed |-> 0,
     behavioral_patterns |-> << >>, timeline_events |-> << >>,
     contexts |-> {}, last_updated |-> 0]

\* BehavioralPattern(...).model_dump() as add_behavioral_pattern builds it
BehavioralPattern(frequency, triggers, severity, now, notes) ==
    [NoValue EXCEPT !.kind = "behavioral_pattern", !.frequency = frequency,
                    !.severity = severity, !.notes = notes, !.triggers = triggers,
                    !.first_observed = now, !.last_observed = now]

\* DevelopmentalMilestone, SuccessfulIntervention, TriggerResponse and
\* TimelineEvent: a record of its kind dated date
DatedRecord(kind, date) ==
    [NoValue EXCEPT !.kind = kind, !.first_observed = date, !.last_observed = date]

\* the children whose memories the store holds; the manager and the
\* supervisor of the specifications below work for ChildA
ChildA == 1
ChildB == 2
Children == {ChildA, ChildB}

\* r is a record of namespace (child_{child_id}, memory_type), and the
\* same test with the child left out of the namespace
InNamespace_AnyChild(r, child_id, memory_type) ==
    r.memory_type = memory_type

InNamespace(r, child_id, memory_type) ==
    r.child_id = child_id /\ r.memory_type = memory_type

\* store.aput(namespace, key, data): the record of the key is replaced;
\* before it, a put that keeps the record a key already has
aput_KeepsFirst(store, child_id, memory_type, key, data) ==
    IF \E r \in store : InNamespace(r, child_id, memory_type) /\ r.key = key
    THEN store
    ELSE store \cup {[child_id |-> child_id, memory_type |-> memory_type,
                      key |-> key, value |-> data]}

aput(store, child_id, memory_type, key, data) ==
    {r \in store : ~(InNamespace(r, child_id, memory_type) /\ r.key = key)}
        \cup {[child_id |-> child_id, memory_type |-> memory_type, key |-> key,
               value |-> data]}

\* MemoryBackends.save_long_term_memory: store.aput(namespace, key, data)
save_long_term_memory(store, child_id, memory_type, key, data) ==
    aput(store, child_id, memory_type, key, data)

\* MemoryBackends.get_long_term_memory: item.value if item else None
get_long_term_memory(store, child_id, memory_type, key) ==
    IF \E r \in store : InNamespace(r, child_id, memory_type) /\ r.key = key
    THEN (CHOOSE r \in store : InNamespace(r, child_id, memory_type) /\ r.key = key).value
    ELSE NoValue

\* the arguments of update_behavioral_pattern; 0, "-" and {} are None
NoArgs == [last_observed |-> 0, frequency |-> "-", severity |-> "-",
           new_triggers |-> {}, notes |-> "-"]

\* the field updates of update_behavioral_pattern with the trigger list
\* replaced by the new triggers
update_fields_ReplacesTriggers(existing, args) ==
    [existing EXCEPT
        !.last_observed = IF args.last_observed # 0 THEN args.last_observed ELSE @,
        !.frequency = IF args.frequency # "-" THEN args.frequency ELSE @,
        !.severity = IF args.severity # "-" THEN args.severity ELSE @,
        !.triggers = IF args.new_triggers # {} THEN args.new_triggers ELSE @,
        !.notes = IF args.notes # "-" THEN args.notes ELSE @]

\* the field updates of update_behavioral_pattern (manager.py 118-128)
update_fields(existing, args) ==
    [existing EXCEPT
        !.last_observed = IF args.last_observed # 0 THEN args.last_observed ELSE @,
        !.frequency = IF args.frequency # "-" THEN args.frequency ELSE @,
        !.severity = IF args.severity # "-" THEN args.severity ELSE @,
        !.triggers = IF args.new_triggers # {} THEN @ \cup args.new_triggers ELSE @,
        !.notes = IF args.notes # "-" THEN args.notes ELSE @]

NoAppends == [t \in MemoryTypes |-> 0]

\* the last operation: its name, the key it used, the arguments of an
\* update, the number of items it appended per memory type, its result;
\* for an operation of the backends also the child and the memory types
\* it was issued for, the data it saved and the items it returned
NoLast == [op |-> "none", key |-> << "-", 0 >>, args |-> NoArgs,
           appends |-> NoAppends, ok |-> FALSE,
           child_id |-> 0, memory_types |-> {}, data |-> NoValue,
           returned |-> {}]

\* the last temporal analysis: the window, the ages in days (now minus
\* last_observed) of the patterns the search returned, and the result
NoAnalysis == [called |-> FALSE, days_back |-> 0, ages |-> << >>,
               recent_patterns |-> 0, trend |-> "-"]

EmptyMemory == [store |-> {}, clock |-> 1, uuid |-> 0, conversations |-> 0,
                last |-> NoLast, analysis |-> NoAnalysis]

\* datetime.now() moves on
Tick ==
    /\ mem.clock < MaxClock
    /\ mem' = [mem EXCEPT !.clock = @ + 1]
    /\ UNCHANGED <<wfVars, exVars, svVars, td, sk, an, bk>>

\* an add_* operation of MemoryManager: a new uuid key, one save
ManagerAdd(op, memory_type, data) ==
    /\ mem' = [mem EXCEPT
                  !.uuid = @ + 1,
                  !.store = save_long_term_memory(@, ChildA, memory_type, UuidKey(mem.uuid + 1), data),
                  !.last = [NoLast EXCEPT !.op = op, !.key = UuidKey(mem.uuid + 1),
                                          !.appends[memory_type] = 1, !.ok = TRUE]]
    /\ UNCHANGED <<wfVars, exVars, svVars, td, sk, an, bk>>

\* MemoryManager.add_behavioral_pattern
AddBehavioralPattern(frequency, triggers, severity, notes) ==
    ManagerAdd("add_behavioral_pattern", "behavioral_patterns",
               BehavioralPattern(frequency, triggers, severity, mem.clock, notes))

\* MemoryManager.add_developmental_milestone(achieved_at or now)
AddDevelopmentalMilestone(achieved_at) ==
    ManagerAdd("add_developmental_milestone", "developmental_history",
               DatedRecord("developmental_milestone",
                           IF achieved_at # 0 THEN achieved_at ELSE mem.clock))

\* MemoryManager.add_successful_intervention(applied_date or now)
AddSuccessfulIntervention(applied_date) ==
    ManagerAdd("add_successful_intervention", "successful_interventions",
               DatedRecord("successful_intervention",
                           IF applied_date # 0 THEN applied_date ELSE mem.clock))

\* MemoryManager.add_trigger_response(observed_date or now)
AddTriggerResponse(observed_date) ==
    ManagerAdd("add_trigger_response", "triggers_and_responses",
               DatedRecord("trigger_response",
                           IF observed_date # 0 THEN observed_date ELSE mem.clock))

\* MemoryManager.add_timeline_event(date or now)
AddTimelineEvent(date) ==
    ManagerAdd("add_timeline_event", "timeline_events",
               DatedRecord("timeline_event", IF date # 0 THEN date ELSE mem.clock))

\* MemoryManager.update_behavioral_pattern: False when the pattern is not
\* found, else the merged record is saved under its key
UpdateBehavioralPattern(pattern_id, args) ==
    /\ LET existing == get_long_term_memory(mem.store, ChildA, "behavioral_patterns", pattern_id)
       IN IF existing.kind = "none"
          THEN mem' = [mem EXCEPT !.last = [NoLast EXCEPT
                                              !.op = "update_behavioral_pattern",
                                              !.key = pattern_id, !.args = args]]
          ELSE mem' = [mem EXCEPT
                          !.store = save_long_term_memory(@, ChildA, "behavioral_patterns",
                                        pattern_id, update_fields(existing, args)),
                          !.last = [NoLast EXCEPT
                                       !.op = "update_behavioral_pattern",
                                       !.key = pattern_id, !.args = args, !.ok = TRUE]]
    /\ UNCHANGED <<wfVars, exVars, svVars, td, sk, an, bk>>

\* what _extract_memory_with_llm may return: whether anything is worth
\* remembering, the numbers of life events and behaviours, the family
\* context items and the emotional triggers (the last two drawn together)
Extractions ==
    {e \in [should_remember : BOOLEAN, life_events : 0..1, behaviors : 0..2,
             family_context : {{}, {"siblings"}},
             emotional_triggers : {{}, {"noise"}}] :
        /\ ~e.should_remember =>
              e.life_events + e.behaviors = 0 /\ e.family_context = {}
        /\ (e.emotional_triggers = {}) = (e.family_context = {})}

\* n items dated now appended to a list
AppendDated(list, n, now) == list \o [i \in 1..n |-> now]

\* SupervisorAgent._update_memory_from_conversation
update_memory_from_conversation(store, extracted, now) ==
    IF ~extracted.should_remember THEN store
    ELSE LET memory_data == get_long_term_memory(store, ChildA, "behavioral_patterns", MainKey)
             child_memory == IF memory_data.kind # "none" THEN memory_data
                             ELSE [NoValue EXCEPT !.kind = "child_memory",
                                                  !.last_updated = now]
             with_events ==
                 IF extracted.life_events > 0
                 THEN [child_memory EXCEPT
                          !.timeline_events = AppendDated(@, extracted.life_events, now),
                          !.last_updated = now]
                 ELSE child_memory
             with_patterns ==
                 IF extracted.behaviors > 0
                 THEN [with_events EXCEPT
                          !.behavioral_patterns = AppendDated(@, extracted.behaviors, now),
                          !.last_updated = now]
                 ELSE with_events
             s1 == IF extracted.family_context # {}
                   THEN save_long_term_memory(store, ChildA, "family_context", MainKey,
                            [NoValue EXCEPT !.kind = "family_context",
                                            !.contexts = extracted.family_context,
                                            !.last_updated = now])
                   ELSE store
             triggers_data ==
                 get_long_term_memory(s1, ChildA, "triggers_and_responses", EmotionalTriggersKey)
             s2 == IF extracted.emotional_triggers # {}
                   THEN save_long_term_memory(s1, ChildA, "triggers_and_responses",
                            EmotionalTriggersKey,
                            [NoValue EXCEPT !.kind = "emotional_triggers",
                                            !.triggers = triggers_data.triggers
                                                           \cup extracted.emotional_triggers,
                                            !.last_updated = now])
                   ELSE s1
         IN save_long_term_memory(s2, ChildA, "behavioral_patterns", MainKey, with_patterns)

\* the post-conversation memory update of process_message /
\* process_message_stream
UpdateMemoryFromConversation(extracted) ==
    /\ mem.conversations < MaxConversations
    /\ mem' = [mem EXCEPT
                  !.conversations = @ + 1,
                  !.store = update_memory_from_conversation(@, extracted, mem.clock),
                  !.last = [NoLast EXCEPT
                               !.op = "update_memory_from_conversation",
                               !.key = MainKey,
                               !.appends = IF extracted.should_remember
                                           THEN [NoAppends EXCEPT
                                                   !["behavioral_patterns"] = extracted.behaviors,
                                                   !["timeline_events"] = extracted.life_events]
                                           ELSE NoAppends,
                               !.ok = extracted.should_remember]]
    /\ UNCHANGED <<wfVars, exVars, svVars, td, sk, an, bk>>

\* the ages of a sequence, from position i on, that are at most limit
RECURSIVE SelectAges(_, _, _)
SelectAges(ages, limit, i) ==
    IF i > Len(ages) THEN << >>
    ELSE (IF ages[i] <= limit THEN << ages[i] >> ELSE << >>)
            \o SelectAges(ages, limit, i + 1)

\* recent_half > older_half * 1.5, and the same comparison allowing equality
exceeds_NonStrict(a, b) == 2 * a >= 3 * b
exceeds(a, b) == 2 * a > 3 * b

\* MemoryManager._calculate_trend over the patterns of the window, each
\* given by its age: last_observed >= now - mid_point days is
\* age <= mid_point
calculate_trend(time_sorted_patterns, days_back) ==
    IF Len(time_sorted_patterns) < 2 THEN "insufficient_data"
    ELSE LET mid_point == days_back \div 2
             recent_half == Len(SelectAges(time_sorted_patterns, mid_point, 1))
             older_half == Len(time_sorted_patterns) - recent_half
         IN IF exceeds(recent_half, older_half) THEN "increasing"
            ELSE IF exceeds(older_half, recent_half) THEN "decreasing"
            ELSE "stable"

\* MemoryManager.get_temporal_pattern_analysis over the patterns the search
\* returned: those with last_observed >= now - days_back are kept, and the
\* trend is calculated over them
get_temporal_pattern_analysis(ages, days_back) ==
    LET recent_patterns == SelectAges(ages, days_back, 1)
    IN [called |-> TRUE, days_back |-> days_back, ages |-> ages,
        recent_patterns |-> Len(recent_patterns),
        trend |-> calculate_trend(recent_patterns, days_back)]

\* the analysis windows of the calls
AnalysisWindows == {90, 91}

\* a search result: recent patterns of one age, older patterns of one age,
\* and stale patterns observed before the window
SearchResult(recent, recent_age, older, older_age, stale, days_back) ==
    [i \in 1..recent |-> recent_age] \o [i \in 1..older |-> older_age]
        \o [i \in 1..stale |-> days_back + 1]

\* a call of get_temporal_pattern_analysis; the analysis keeps nothing
\* between calls, so a behaviour follows one call
GetTemporalPatternAnalysis(ages, days_back) ==
    /\ ~mem.analysis.called
    /\ mem' = [mem EXCEPT !.analysis = get_temporal_pattern_analysis(ages, days_back)]
    /\ UNCHANGED <<wfVars, exVars, svVars, td, sk, an, bk>>

(***************************************************************************)
(* The query and delete operations of MemoryBackends                       *)
(* (app/memory/backends.py) over the store.                                *)
(***************************************************************************)
\* the limit of the search that delete_all_child_memories deletes from,
\* and the default limit of list_memories
EraseSearchLimit == 1000
ListLimit == 100

\* the position of a record among those of its namespace: a later uuid
\* key is a later record
Recency(r) == r.key[2]

\* store.asearch(namespace, limit=limit): the items of the namespace, the
\* latest limit of them when there are more
asearch(store, child_id, memory_type, limit) ==
    LET items == {r \in store : InNamespace(r, child_id, memory_type)}
    IN IF Cardinality(items) <= limit THEN items
       ELSE {r \in items :
                Cardinality({q \in items : Recency(q) > Recency(r)}) < limit}

\* store.adelete(namespace, key)
adelete(store, child_id, memory_type, key) ==
    {r \in store : ~(InNamespace(r, child_id, memory_type) /\ r.key = key)}

\* MemoryBackends.list_memories: the values of the items found
list_memories(store, child_id, memory_type, limit) ==
    {r.value : r \in asearch(store, child_id, memory_type, limit)}

\* MemoryBackends.search_memories: the items found in the namespace of
\* each memory type searched (all known types when none is given)
search_memories(store, child_id, memory_types, limit) ==
    LET types_to_search == IF memory_types # {} THEN memory_types ELSE MemoryTypes
    IN UNION {asearch(store, child_id, t, limit) : t \in types_to_search}

\* MemoryBackends.delete_memory
delete_memory(store, child_id, memory_type, key) ==
    adelete(store, child_id, memory_type, key)

\* MemoryBackends.delete_all_child_memories: for each known memory type,
\* one search of the namespace and a delete of every item found
delete_all_child_memories(store, child_id) ==
    store \ UNION {asearch(store, child_id, t, EraseSearchLimit) : t \in MemoryTypes}

\* an operation of the backends issued for a child
BackendOp(op, child_id, memory_types, key) ==
    [NoLast EXCEPT !.op = op, !.child_id = child_id,
                   !.memory_types = memory_types, !.key = key, !.ok = TRUE]

SaveLongTermMemory(child_id, memory_type, key, data) ==
    /\ mem' = [mem EXCEPT
                  !.store = save_long_term_memory(@, child_id, memory_type, key, data),
                  !.last = [BackendOp("save_long_term_memory", child_id,
                                      {memory_type}, key) EXCEPT !.data = data]]
    /\ UNCHANGED <<wfVars, exVars, svVars, td, sk, an, bk>>

GetLongTermMemory(child_id, memory_type, key) ==
    /\ mem' = [mem EXCEPT
                  !.last = [BackendOp("get_long_term_memory", child_id,
                                      {memory_type}, key) EXCEPT
                               !.data = get_long_term_memory(mem.store, child_id,
                                                             memory_type, key)]]
    /\ UNCHANGED <<wfVars, exVars, svVars, td, sk, an, bk>>

ListMemories(child_id, memory_type) ==
    /\ mem' = [mem EXCEPT
                  !.last = [BackendOp("list_memories", child_id, {memory_type},
                                      NoLast.key) EXCEPT
                               !.returned = asearch(mem.store, child_id,
                                                    memory_type, ListLimit)]]
    /\ UNCHANGED <<wfVars, exVars, svVars, td, sk, an, bk>>

SearchMemories(child_id, memory_types) ==
    /\ mem' = [mem EXCEPT
                  !.last = [BackendOp("search_memories", child_id, memory_types,
                                      NoLast.key) EXCEPT
                               !.returned = search_memories(mem.store, child_id,
                                                            memory_types, 10)]]
    /\ UNCHANGED <<wfVars, exVars, svVars, td, sk, an, bk>>

DeleteMemory(child_id, memory_type, key) ==
    /\ mem' = [mem EXCEPT
                  !.store = delete_memory(@, child_id, memory_type, key),
                  !.last = BackendOp("delete_memory", child_id, {memory_type}, key)]
    /\ UNCHANGED <<wfVars, exVars, svVars, td, sk, an, bk>>

\* MemoryBackends.delete_all_child_memories (MemoryManager.delete_all_memories)
DeleteAllChildMemories(child_id) ==
    /\ mem' = [mem EXCEPT
                  !.store = delete_all_child_memories(@, child_id),
                  !.last = BackendOp("delete_all_child_memories", child_id,
                                     MemoryTypes, NoLast.key)]
    /\ UNCHANGED <<wfVars, exVars, svVars, td, sk, an, bk>>

(***************************************************************************)
(* The agent calls of the analysis stage (app/workflow/nodes.py):          *)
(* call_behavior_analyst and call_material_consultant on the state that    *)
(* route_to_agents left.  A text an agent returns is given by the request  *)
(* the agent received.                                                     *)
(***************************************************************************)
Concerns == {"tantrums at bedtime", "hitting a sibling", "refuses school"}

\* a text of the analysis state: what it is, what it is about, and the
\* additional context it was written with; kind "none" is the missing or
\* empty text
NoText == [kind |-> "none", about |-> "-", child_age |-> 0,
           context_kind |-> "none", context_about |-> "-"]

\* behavior_analyst.analyze(child_id, current_concern, child_age)["analysis"]
analyze(current_concern, child_age) ==
    [NoText EXCEPT !.kind = "analysis", !.about = current_concern,
                   !.child_age = child_age]

\* material_consultant.recommend(issue, child_age, additional_context)
\* ["recommendations"]: the request carries the additional context when it
\* is not empty
recommend(issue, child_age, additional_context) ==
    [NoText EXCEPT !.kind = "recommendations", !.about = issue,
                   !.child_age = child_age,
                   !.context_kind = additional_context.kind,
                   !.context_about = additional_context.about]

\* the graph state after route_to_agents
RoutedState(current_concern, child_age) ==
    [current_concern |-> current_concern, child_age |-> child_age,
     agents_to_call |-> {"behavior_analyst", "material_consultant"},
     behavior_analysis |-> NoText, material_recommendations |-> NoText]

\* call_behavior_analyst(state)
call_behavior_analyst(s) ==
    IF "behavior_analyst" \notin s.agents_to_call THEN s
    ELSE [s EXCEPT !.behavior_analysis = analyze(s.current_concern, s.child_age)]

\* call_material_consultant(state): additional_context is
\* state.get("behavior_analysis", "")
call_material_consultant(s) ==
    IF "material_consultant" \notin s.agents_to_call THEN s
    ELSE [s EXCEPT !.material_recommendations =
                      recommend(s.current_concern, s.child_age, s.behavior_analysis)]

NoAnalysisRun == [routed |-> RoutedState("-", 0), state |-> RoutedState("-", 0),
                  done |-> {}, started |-> FALSE]

\* route_to_agents hands the state to the agent calls
RouteToAgents(current_concern, child_age) ==
    /\ ~an.started
    /\ an' = [routed |-> RoutedState(current_concern, child_age),
              state |-> RoutedState(current_concern, child_age),
              done |-> {}, started |-> TRUE]
    /\ UNCHANGED <<wfVars, exVars, svVars, td, sk, mem, bk>>

CallBehaviorAnalyst ==
    /\ an.started
    /\ "call_behavior_analyst" \notin an.done
    /\ an' = [an EXCEPT !.state = call_behavior_analyst(@),
                        !.done = @ \cup {"call_behavior_analyst"}]
    /\ UNCHANGED <<wfVars, exVars, svVars, td, sk, mem, bk>>

CallMaterialConsultant ==
    /\ an.started
    /\ "call_material_consultant" \notin an.done
    /\ an' = [an EXCEPT !.state = call_material_consultant(@),
                        !.done = @ \cup {"call_material_consultant"}]
    /\ UNCHANGED <<wfVars, exVars, svVars, td, sk, mem, bk>>

(***************************************************************************)
(* MemoryBackends.get_store: lazy creation of the long-term store by       *)
(* concurrent callers on one event loop.  A caller runs without            *)
(* interruption between two awaits, so one action is the code from one     *)
(* await to the next.                                                      *)
(***************************************************************************)
Callers == 1..MaxCallers

\* MemoryBackends.__init__; a store is named by the number of the
\* from_conn_string call that made it and 0 is None.  lock_created is
\* "_store_lock is not None", lock_holder the caller inside the lock
\* (0: unlocked), waiters the callers queued in Lock.acquire; created and
\* setups count the from_conn_string calls and the completed setup() calls,
\* set_up holds the stores whose setup() completed; pc is each caller's
\* position in get_store and received the store its last call returned
MemoryBackends ==
    [store |-> 0, store_cm |-> 0, lock_created |-> FALSE, lock_holder |-> 0,
     waiters |-> << >>, store_initialized |-> FALSE,
     created |-> 0, setups |-> 0, set_up |-> {},
     pc |-> [c \in Callers |-> "idle"],
     received |-> [c \in Callers |-> 0]]

\* the test of the fast path and of the double check
store_ready(b) == b.store_initialized /\ b.store # 0

\* "return self._store" to caller c
return_store(b, c) ==
    [b EXCEPT !.pc[c] = "returned", !.received[c] = b.store]

\* inside the lock, the store is not ready: from_conn_string builds the
\* context manager, and the caller awaits __aenter__
begin_initialization(b, c) ==
    [b EXCEPT !.lock_holder = c,
              !.created = @ + 1,
              !.store_cm = b.created + 1,
              !.pc[c] = "aenter"]

\* get_store from its first line to its first await: the fast path, the
\* lazy creation of the lock, and Lock.acquire, which takes a free lock
\* that nobody is queued for without yielding and queues otherwise
GetStore(c) ==
    /\ bk.pc[c] = "idle"
    /\ bk' = IF store_ready(bk) THEN return_store(bk, c)
             ELSE LET b == [bk EXCEPT !.lock_created = TRUE]
                  IN IF b.lock_holder = 0 /\ b.waiters = << >>
                     THEN begin_initialization(b, c)
                     ELSE [b EXCEPT !.waiters = Append(@, c),
                                    !.pc[c] = "waiting"]
    /\ UNCHANGED <<wfVars, exVars, svVars, td, sk, mem, an>>

\* the first queued caller is given the released lock and skips the double
\* check
AcquireStoreLock_NoDoubleCheck(c) ==
    /\ bk.pc[c] = "waiting"
    /\ bk.lock_holder = 0
    /\ Head(bk.waiters) = c
    /\ bk' = begin_initialization([bk EXCEPT !.waiters = Tail(@)], c)
    /\ UNCHANGED <<wfVars, exVars, svVars, td, sk, mem, an>>

\* the first queued caller is given the released lock: the double check
\* returns the store (leaving the with block releases the lock) or the
\* caller initializes
AcquireStoreLock(c) ==
    /\ bk.pc[c] = "waiting"
    /\ bk.lock_holder = 0
    /\ Head(bk.waiters) = c
    /\ LET b == [bk EXCEPT !.waiters = Tail(@)]
       IN bk' = IF store_ready(b) THEN return_store(b, c)
                ELSE begin_initialization(b, c)
    /\ UNCHANGED <<wfVars, exVars, svVars, td, sk, mem, an>>

\* __aenter__ returns the store, and the caller awaits setup()
EnterStore(c) ==
    /\ bk.pc[c] = "aenter"
    /\ bk' = [bk EXCEPT !.store = bk.store_cm, !.pc[c] = "setup"]
    /\ UNCHANGED <<wfVars, exVars, svVars, td, sk, mem, an>>

\* setup() returns: the flag is set, the with block is left (the lock is
\* released) and the store is returned
SetupStore(c) ==
    /\ bk.pc[c] = "setup"
    /\ bk' = return_store([bk EXCEPT !.setups = @ + 1,
                                     !.set_up = @ \cup {bk.store},
                                     !.store_initialized = TRUE,
                                     !.lock_holder = 0], c)
    /\ UNCHANGED <<wfVars, exVars, svVars, td, sk, mem, an>>

\* the caller uses the store it received and is free to call again
UseStore(c) ==
    /\ bk.pc[c] = "returned"
    /\ bk' = [bk EXCEPT !.pc[c] = "idle"]
    /\ UNCHANGED <<wfVars, exVars, svVars, td, sk, mem, an>>

(***************************************************************************)
(* Specifications.                                                         *)
(***************************************************************************)
Init ==
    /\ state = initial_state(FALSE, FALSE)
    /\ wfNext = "none"
    /\ wfInterrupt = FALSE
    /\ wfCall = "idle"
    /\ wfIn = "-"
    /\ wfOut = NoOut
    /\ wfRuns = NoRuns
    /\ conv = [exploration_phase |-> "not_started", current_exploration_topic_id |-> 0]
    /\ qa = << >>
    /\ topicSeq = 0
    /\ tx = [p \in Procs |-> IdleTx]
    /\ resp = [p \in Procs |-> NoResp]
    /\ sv = NewMessage("none", FALSE)
    /\ gate = IdleGate
    /\ td = NoTopicDecision
    /\ sk = NoSkillCall
    /\ mem = EmptyMemory
    /\ an = NoAnalysisRun
    /\ bk = MemoryBackends

\* the workflow of one thread, one call at a time
Next ==
    \/ \E f \in BOOLEAN, t \in BOOLEAN : Run(f, t)
    \/ \E first \in BOOLEAN : SendMessageStream(first)
    \/ \E first \in BOOLEAN : SendMessage(first)
    \/ \E c \in BOOLEAN : CheckKnowledgeGatheringNeeded(c)
    \/ \E ok \in BOOLEAN, count \in Phase1MinCount..Phase1MaxCount :
           \E n \in ListLens(count) : GeneratePhase1Questions(ok, count, n)
    \/ AskPhase1Question
    \/ \E ok \in BOOLEAN, count \in Phase2MinCount..Phase2MaxCount :
           \E n \in ListLens(count) : GeneratePhase2Questions(ok, count, n)
    \/ AskPhase2Question
    \/ YieldInterrupt
    \/ \E a \in Answers : ResumePhase1(a)
    \/ \E a \in Answers : ResumePhase2(a)
    \/ \E a \in Answers : ResumeRejected(a)
    \/ \E ok \in BOOLEAN : CompileGatheredKnowledge(ok)
    \/ \E ok \in BOOLEAN : AnalysisNode(ok)
    \/ StreamSynthesis
    \/ \E t \in RunTexts : FilterResponse(t[1], t[2])
    \/ SendMessageStreamDone
    \/ SynthesizeResponse
    \/ \E t \in RunTexts : SafetyCheck(t[1], t[2])
    \/ FormatOutput
    \/ SendMessageReturn
    \/ WorkflowCrash

Spec == Init /\ [][Next]_vars

\* the exploration interview, one request at a time
ExplorationAnswers == {"a"}

NextExploration ==
    \/ \E cid \in ConvIds, found \in BOOLEAN : StartBegin(1, cid, found)
    \/ StartCommit(1)
    \/ \E cid \in ConvIds, a \in ExplorationAnswers, forq \in CallerQuestions :
           SubmitBegin(1, cid, a, forq)
    \/ SubmitCommit(1)
    \/ Return(1)
    \/ Reject(1)
    \/ GenerationFails(1)
    \/ ServiceCrash(1)

SpecExploration == Init /\ [][NextExploration]_vars

\* the exploration interview with two requests in flight
NextConcurrent ==
    \E p \in Procs :
        \/ topicSeq = 0 /\ StartBegin(p, 1, TRUE)
        \/ StartCommit(p)
        \/ \E a \in Answers :
               Len(qa) < MaxRows /\ SubmitBegin(p, 1, a, 0)
        \/ SubmitCommit(p)
        \/ Return(p)
        \/ Reject(p)

SpecConcurrent == Init /\ [][NextConcurrent]_vars

\* the safety gate as a function of the two texts, the human-in-the-loop
\* switch and the reviewer's decision
NextGate ==
    \/ \E uf \in SUBSET Flags, rf \in SUBSET Flags, hitl \in BOOLEAN :
           CheckAndFilter(uf, rf, hitl)
    \/ \E d \in Decisions \cup UnrecognisedDecisions : ResumeReview(d)

SpecGate == Init /\ [][NextGate]_vars

(***************************************************************************)
(* Properties.                                                             *)
(***************************************************************************)
\* the conversation has no question awaiting an answer: it is unknown, its
\* interview never started, or every question of its topic is answered
NoPendingSuspension(cid) ==
    \/ cid \notin ExistingConvs
    \/ conv.current_exploration_topic_id = 0
    \/ \A i \in DOMAIN qa :
          qa[i].topic_id = conv.current_exploration_topic_id => qa[i].answer # "-"

\* C1: an answer submitted for a conversation that is unknown or has no
\* pending question is rejected with an error and leaves the persisted
\* conversation and question rows unchanged; it is never answered as a
\* success.
C1_InvalidResumeRejected ==
    [][\A p \in Procs :
         /\ (/\ tx[p].pc = "idle" /\ tx'[p].pc # "idle" /\ tx'[p].op = "submit"
             /\ NoPendingSuspension(tx'[p].cid))
               => (tx'[p].pc = "rejected" /\ conv' = conv /\ qa' = qa)
         /\ (tx[p].pc = "rejected" /\ tx'[p] # tx[p])
               => /\ conv' = conv /\ qa' = qa
                  /\ resp'[p] = resp[p] \/ resp'[p].status = "error"
      ]_vars

\* a submit on a completed interview was rejected with an error
C1_Witness ==
    /\ conv.exploration_phase = "completed"
    /\ resp[1] = ErrorResp("submit")
    /\ tx[1].pc = "idle"

\* C2: a resume accepted while a question is pending advances exactly one
\* answered question: the index of that phase grows by 1, its answer list
\* grows by the pair (pending question, supplied answer), and no recorded
\* answer of either phase changes.
C2_ResumeAdvancesOne ==
    [][(wfInterrupt /\ ~wfInterrupt' /\ wfNext' # "check_knowledge_gathering_needed")
         => IF wfNext = "ask_phase_1_question"
            THEN /\ state'.phase_1_current_index = state.phase_1_current_index + 1
                 /\ state'.phase_1_answers =
                        Append(state.phase_1_answers,
                               [question |-> state.phase_1_questions[state.phase_1_current_index + 1],
                                answer |-> wfIn'])
                 /\ state'.phase_2_answers = state.phase_2_answers
                 /\ state'.phase_2_current_index = state.phase_2_current_index
            ELSE /\ state'.phase_2_current_index = state.phase_2_current_index + 1
                 /\ state'.phase_2_answers =
                        Append(state.phase_2_answers,
                               [question |-> state.phase_2_questions[state.phase_2_current_index + 1],
                                answer |-> wfIn'])
                 /\ state'.phase_1_answers = state.phase_1_answers
                 /\ state'.phase_1_current_index = state.phase_1_current_index
      ]_vars

\* the second follow-up question was just answered with "b" after "a"
C2_Witness ==
    /\ wfCall = "running" /\ wfIn = "b"
    /\ Len(state.phase_2_answers) = 2
    /\ state.phase_2_answers[1].answer = "a"
    /\ state.phase_2_answers[2] = [question |-> QuestionText(2, 2), answer |-> "b"]

\* C3: a second answer submitted for a question that already has its answer
\* is rejected: an accepted answer is recorded against the question the
\* caller was answering, never against a later one.
C3_DuplicateResumeRejected ==
    \A p \in Procs :
        (tx[p].op = "submit" /\ tx[p].pc \in {"answered", "committed"})
            => qa[tx[p].row].question_number = tx[p].forq

\* C4: at most one call of a conversation is in flight, so two concurrent
\* submissions are never applied to the same pending question and never
\* create two next questions.
C4_SingleThreadOfControl ==
    /\ \A p, q \in Procs :
          (p # q /\ tx[p].pc \in {"answered", "committed"}
                 /\ tx[q].pc \in {"answered", "committed"})
              => tx[p].row # tx[q].row
    /\ \A i, j \in DOMAIN qa :
          (qa[i].topic_id = qa[j].topic_id
              /\ qa[i].question_number = qa[j].question_number) => i = j

\* C5: in every workflow state the current index of each phase is at most
\* the question count of that phase.
C5_IndexAtMostCount ==
    /\ state.phase_1_current_index <= state.phase_1_question_count
    /\ state.phase_2_current_index <= state.phase_2_question_count

\* every counted question of a phase was answered although the generated
\* list holds one question more
C5_Witness ==
    /\ state.phase_1_current_index = state.phase_1_question_count
    /\ Len(state.phase_1_questions) > state.phase_1_question_count
    /\ state.phase_2_current_index = state.phase_2_question_count
    /\ state.phase_2_question_count = Phase2MaxCount

\* C6: the phase transitions fire once per interview and only when the
\* index equals the count: generate_phase_2_questions and
\* compile_gathered_knowledge are each executed at most once, exactly once
\* when the phase was left, only with index = count, and while the index is
\* below the count the next node is the question-asking node itself.
C6_TransitionOnce ==
    /\ wfRuns.generate_phase_2_questions =
          (IF state.knowledge_gathering_phase \in {"phase_2", "complete"} THEN 1 ELSE 0)
    /\ wfRuns.compile_gathered_knowledge =
          (IF state.knowledge_gathering_phase = "complete" THEN 1 ELSE 0)
    /\ wfNext = "generate_phase_2_questions"
          => state.phase_1_current_index = state.phase_1_question_count
    /\ wfNext = "compile_gathered_knowledge"
          => state.phase_2_current_index = state.phase_2_question_count
    /\ (state.knowledge_gathering_phase = "phase_1"
          /\ state.phase_1_current_index < state.phase_1_question_count)
          => wfNext = "ask_phase_1_question"
    /\ (state.knowledge_gathering_phase = "phase_2"
          /\ state.phase_2_current_index < state.phase_2_question_count)
          => wfNext = "ask_phase_2_question"

\* both transitions have fired in an interview of 5 + 3 questions
C6_Witness ==
    /\ wfRuns.generate_phase_2_questions = 1
    /\ wfRuns.compile_gathered_knowledge = 1
    /\ state.phase_1_current_index = Phase1MaxCount
    /\ state.phase_2_current_index = Phase2MaxCount

\* C7: whenever generate_phase_2_questions executes, every question of the
\* phase-1 question list has a recorded answer.
C7_Phase1FullyAnswered ==
    wfNext = "generate_phase_2_questions"
        => Len(state.phase_1_answers) = Len(state.phase_1_questions)

\* C8: gathered_knowledge is non-null exactly when the phase is "complete".
C8_KnowledgeIffComplete ==
    (state.gathered_knowledge # << >>) <=> (state.knowledge_gathering_phase = "complete")

\* the compile call failed and its fallback record is in the state
C8_Witness ==
    /\ state.knowledge_gathering_phase = "complete"
    /\ state.gathered_knowledge # << >>
    /\ state.gathered_knowledge[1].key_insights = "compilation_error"

\* C9: whenever an analysis stage or the synthesis is about to run, either
\* gathering was never active or the gathered-knowledge record exists and
\* the phase is "complete".
C9_NoPartialInterviewDownstream ==
    (wfCall = "running" /\ wfNext \in AnalysisNodes \cup {"__end__"})
        => \/ /\ state.knowledge_gathering_phase = "none"
              /\ ~state.is_knowledge_gathering_active
              /\ state.phase_1_questions = << >>
           \/ /\ state.knowledge_gathering_phase = "complete"
              /\ state.gathered_knowledge # << >>

\* pattern analysis is about to run after a completed interview
C9_Witness ==
    /\ wfCall = "running" /\ wfNext = "call_behavior_analyst"
    /\ state.knowledge_gathering_phase = "complete"
    /\ Len(state.phase_1_answers) >= Phase1MinCount

SuspendingStages == {"ask_phase_1_question", "ask_phase_2_question", "safety_check"}

\* C11: a suspension is emitted only while a question-asking stage or the
\* safety-review stage executes: whenever an interrupt is pending, is being
\* yielded or was returned to the caller, the stage of the thread is one of
\* these, and the safety gate is under review only with human-in-the-loop
\* enabled.
C11_OnlyAskAndReviewSuspend ==
    /\ (wfInterrupt \/ wfCall = "yielding" \/ wfOut.status = "suspended")
          => wfNext \in SuspendingStages
    /\ wfOut.status = "suspended" => wfInterrupt
    /\ gate.pc = "review" => gate.enable_hitl

\* a follow-up question was returned to the caller of a run that went
\* through both question-asking stages
C11_Witness ==
    /\ wfOut.status = "suspended" /\ wfOut.phase = 2
    /\ wfNext = "ask_phase_2_question" /\ wfCall = "idle"
    /\ Len(state.phase_1_answers) >= Phase1MinCount

\* C12: a run started with is_first_message suspends first with question 1
\* of phase 1; while its questions are being answered no question-asking
\* stage fails the run; and when it completes, the answers recorded (one per
\* suspension) number phase-1 count + phase-2 count and gathered_knowledge
\* is non-null.
C12_EndToEndProgress ==
    [][state'.is_first_message =>
         /\ (wfOut'.status = "suspended" /\ state'.phase_1_answers = << >>)
               => (wfOut'.phase = 1 /\ wfOut'.question_number = 1)
         /\ ~(/\ wfCall = "running"
              /\ wfNext \in {"ask_phase_1_question", "ask_phase_2_question"}
              /\ wfCall' = "idle" /\ wfOut'.status = "error")
         /\ wfOut'.status = "completed"
               => /\ Len(state'.phase_1_answers) + Len(state'.phase_2_answers)
                        = state'.phase_1_question_count + state'.phase_2_question_count
                  /\ state'.gathered_knowledge # << >>
      ]_vars

\* C13: in every run whose message is the first of its conversation, the
\* stage check_knowledge_gathering_needed routes to
\* generate_phase_1_questions, whichever entry point started the run.
C13_FirstMessageStartsInterview ==
    [][(sv.first /\ wfNext = "check_knowledge_gathering_needed" /\ wfNext' # wfNext)
          => wfNext' = "generate_phase_1_questions"
      ]_vars

\* C14: whatever part of the response the caller has received, and the
\* assistant message that was saved, is the content the safety gate returned
\* after classifying the response: nothing is delivered or saved before the
\* gate has returned, and what is delivered or saved is its filtered content.
C14_SafetyGateBeforeOutput ==
    /\ sv.delivered # << >>
          => (gate.pc = "returned" /\ sv.delivered = gate.filtered_content)
    /\ sv.persisted # << >>
          => (gate.pc = "returned" /\ sv.persisted = gate.filtered_content)

\* the severity ladder applied to a detection result d
OnLadder(d) ==
    LET F == d.flags
        critical == "emergency" \in F \/ "harm" \in F
        high == "medical_advice" \in F
                   \/ {"developmental_concern", "medical"} \subseteq F
        moderate == "medical" \in F \/ "developmental_concern" \in F
    IN /\ d.sensitivity_level \in {"critical", "high", "moderate", "safe"}
       /\ d.sensitivity_level = "critical" <=> critical
       /\ d.sensitivity_level = "high" <=> (~critical /\ high)
       /\ d.sensitivity_level = "moderate" <=> (~critical /\ ~high /\ moderate)
       /\ d.sensitivity_level = "safe" <=> (~critical /\ ~high /\ ~moderate)
       /\ d.requires_review <=> d.sensitivity_level # "safe"

\* C15: for every subset of the five flags the severity is CRITICAL if
\* emergency or harm is present, else HIGH if medical_advice is present or
\* developmental_concern and medical are both present, else MODERATE if
\* medical or developmental_concern is present, else SAFE, and
\* requires_review holds exactly when the severity is not SAFE.
C15_SeverityLadder ==
    /\ OnLadder(gate.detection_details.user_detection)
    /\ OnLadder(gate.detection_details.response_detection)

\* a text with an emergency keyword and every other flag was classified
\* CRITICAL, and one with developmental and clinical terms HIGH
C15_Witness ==
    /\ gate.pc = "returned"
    /\ gate.user_flags = Flags
    /\ gate.detection_details.user_detection.sensitivity_level = "critical"
    /\ gate.response_flags = {"developmental_concern", "medical"}
    /\ gate.detection_details.response_detection.sensitivity_level = "high"

\* C16: the flags of the safety gate are the union of the flags of the
\* message and of the draft response, and the severity the gate acts on and
\* reports in the review payload (level and recommendation) is the severity
\* ladder evaluated on that union.
C16_SeverityOfUnion ==
    gate.pc # "idle" =>
        LET union == gate.user_flags \cup gate.response_flags
        IN /\ gate.safety_flags = union
           /\ gate.requires_review = assess_severity(union).requires_review
           /\ gate.pc = "review" =>
                 /\ gate.payload.flags = union
                 /\ gate.payload.sensitivity_level = assess_severity(union).level
                 /\ gate.payload.recommendation = assess_severity(union).recommendation

C18_NoHitlStillDisclaims ==
    (gate.pc # "idle" /\ ~gate.enable_hitl) =>
        /\ gate.pc = "returned"
        /\ ~gate.was_interrupted
        /\ gate.payload = NoPayload
        /\ gate.safety_flags # {}
              => /\ gate.filtered_content
                       = gate.content \o get_disclaimers_for_flags(gate.safety_flags)
                 /\ "general" \in Blocks(gate.filtered_content)
        /\ gate.safety_flags = {} => gate.filtered_content = gate.content

\* a flagged message with an unflagged response went through the gate with
\* human-in-the-loop disabled and came back with its disclaimers
C18_Witness ==
    /\ gate.pc = "returned" /\ ~gate.enable_hitl
    /\ gate.user_flags = {"medical"} /\ gate.response_flags = {}
    /\ gate.requires_review
    /\ gate.filtered_content = << "response", "general", "medical" >>

\* the disclaimers the gate appended to the response it returned or sent
\* to review
AppendedDisclaimers ==
    LET c == IF gate.pc = "review" THEN gate.payload.content
             ELSE gate.filtered_content
    IN SubSeq(c, Len(gate.content) + 1, Len(c))

\* C19: for every non-empty flag set the appended disclaimers hold the
\* general block once, the emergency block once iff emergency or harm is
\* flagged, the medical block once iff medical or medical_advice is flagged,
\* the developmental block once iff developmental_concern is flagged, the
\* referral block once iff medical_advice or harm is flagged, and no block
\* otherwise.
C19_DisclaimerComposition ==
    (gate.pc \in {"review", "returned"} /\ ~gate.was_interrupted
        /\ gate.safety_flags # {}) =>
        LET F == gate.safety_flags
            D == AppendedDisclaimers
            N(b, present) == Occurrences(D, b) = (IF present THEN 1 ELSE 0)
        IN /\ N("general", TRUE)
           /\ N("emergency", "emergency" \in F \/ "harm" \in F)
           /\ N("medical", "medical" \in F \/ "medical_advice" \in F)
           /\ N("developmental", "developmental_concern" \in F)
           /\ N("professional_referral", "medical_advice" \in F \/ "harm" \in F)

\* C20: a pattern-analysis, perspective or recommendation call that raises
\* does not abort the run: no step of such a stage ends the call with an
\* error.
C20_AnalysisFailureTolerated ==
    [][~(/\ wfCall = "running" /\ wfNext \in RaisingNodes
         /\ wfCall' = "idle" /\ wfOut'.status = "error")
      ]_vars

(***************************************************************************)
(* Question generation and the question-asking stages.                     *)
(***************************************************************************)
GenerationNode(phase) ==
    IF phase = 1 THEN "generate_phase_1_questions" ELSE "generate_phase_2_questions"

AskNode(phase) ==
    IF phase = 1 THEN "ask_phase_1_question" ELSE "ask_phase_2_question"

\* the question list of a phase in state s
PhaseQuestions(s, phase) ==
    IF phase = 1 THEN s.phase_1_questions ELSE s.phase_2_questions

PhaseQuestionCount(s, phase) ==
    IF phase = 1 THEN s.phase_1_question_count ELSE s.phase_2_question_count

\* the step is an execution of the generation node of the phase (and not
\* the death of the process at that node)
GenerationStep(phase) ==
    /\ AtNode(GenerationNode(phase))
    /\ ~(wfCall' = "idle" /\ wfOut' = wfOut)

\* the step is an execution of the question-asking node of the phase
AskStep(phase) ==
    /\ AtNode(AskNode(phase))
    /\ ~(wfCall' = "idle" /\ wfOut' = wfOut)

\* C21: a failed question-generation call (error or timeout) in phase 1 or
\* phase 2 falls back to the fixed default question set and the run
\* continues to the question-asking stage with that set; it never fails the
\* run: every execution of a generation node leaves the run running at the
\* question-asking node of its phase, with either a generated result or the
\* fallback set (whose count is its length), and the question-asking node
\* entered with the fallback set suspends with a question of that set.
C21_GenerationFailureFallsBack ==
    [][ \A phase \in {1, 2} :
          /\ GenerationStep(phase) =>
               /\ wfCall' = "running"
               /\ wfOut'.status # "error"
               /\ wfNext' = AskNode(phase)
               /\ \/ /\ PhaseQuestions(state', phase) = FallbackQuestions(phase)
                     /\ PhaseQuestionCount(state', phase) = Len(FallbackQuestions(phase))
                  \/ \E n \in 0..(Phase1MaxCount + LenSlack) :
                         PhaseQuestions(state', phase) = QuestionList(phase, n)
          /\ (AskStep(phase) /\ PhaseQuestions(state, phase) = FallbackQuestions(phase)) =>
               /\ wfCall' = "yielding"
               /\ wfInterrupt'
          /\ (wfCall = "yielding" /\ wfNext = AskNode(phase)
                /\ PhaseQuestions(state, phase) = FallbackQuestions(phase)) =>
               \/ wfOut' = wfOut
               \/ /\ wfOut'.status = "suspended"
                  /\ wfOut'.question \in {FallbackText(phase, i) :
                                            i \in 1..Len(FallbackQuestions(phase))}
      ]_vars

\* both generation calls failed and the interview was completed with the
\* two fallback sets
C21_Witness ==
    /\ state.phase_1_questions = FallbackQuestions(1)
    /\ state.phase_2_questions = FallbackQuestions(2)
    /\ Len(state.phase_1_answers) = Phase1FallbackCount
    /\ Len(state.phase_2_answers) = Phase2FallbackCount
    /\ state.knowledge_gathering_phase = "complete"
    /\ wfOut.status = "completed"

PhaseAnswers(s, phase) ==
    IF phase = 1 THEN s.phase_1_answers ELSE s.phase_2_answers

PhaseMinCount(phase) == IF phase = 1 THEN Phase1MinCount ELSE Phase2MinCount
PhaseMaxCount(phase) == IF phase = 1 THEN Phase1MaxCount ELSE Phase2MaxCount

\* C22: in every interview the number of questions presented to the caller
\* is between 2 and 5 in phase 1 and between 1 and 3 in phase 2, for every
\* result the generation service can return: when a phase ends, by moving
\* on to the next stage or by the failure of its question-asking node, the
\* number of its questions that were presented (each presented question
\* was answered by then) lies within the bounds of the phase.
C22_QuestionCountBounds ==
    [][ \A phase \in {1, 2} :
          /\ (AskStep(phase) /\ wfOut'.status = "error") =>
                 Len(PhaseAnswers(state, phase)) \in PhaseMinCount(phase)..PhaseMaxCount(phase)
          /\ (wfInterrupt /\ wfNext = AskNode(phase) /\ wfNext' # wfNext
                /\ wfNext' # "check_knowledge_gathering_needed") =>
                 Len(PhaseAnswers(state', phase)) \in PhaseMinCount(phase)..PhaseMaxCount(phase)
      ]_vars

\* the question-asking node of the phase would be entered with an empty
\* question list or with an index not below the number of questions
AskStateInvalid(s, phase) ==
    LET questions == PhaseQuestions(s, phase)
        idx == IF phase = 1 THEN s.phase_1_current_index ELSE s.phase_2_current_index
    IN Len(questions) = 0 \/ idx >= Len(questions)

\* the run failed at the question-asking node of the phase
FailedAtAsk(phase) ==
    /\ wfCall = "idle" /\ ~wfInterrupt /\ wfNext = AskNode(phase)
    /\ wfOut.status = "error"

\* C23: a state-invariant violation is fatal for the run: a question-asking
\* stage of either phase entered with an empty question list or with an
\* index not below the number of questions fails the run with an error at
\* that stage; no suspension is emitted, no answer is recorded and no later
\* stage executes (the thread only moves again with a new message).
C23_InvalidAskStateFatal ==
    [][ \A phase \in {1, 2} :
          /\ (AskStep(phase) /\ AskStateInvalid(state, phase)) =>
                /\ wfOut'.status = "error"
                /\ wfCall' = "idle"
                /\ ~wfInterrupt'
                /\ state' = state
                /\ wfNext' = wfNext
          /\ (AskStep(phase) /\ ~AskStateInvalid(state, phase)) =>
                wfOut'.status # "error"
          /\ FailedAtAsk(phase) =>
                \/ wfNext' = "check_knowledge_gathering_needed"
                \/ /\ state' = state /\ wfNext' = wfNext
                   /\ wfCall' = "idle" /\ ~wfInterrupt'
                   /\ wfOut'.status = "error"
      ]_vars

\* the second follow-up question was due but the list holds one question:
\* the run failed at ask_phase_2_question with the single answer recorded
C23_Witness ==
    /\ FailedAtAsk(2)
    /\ AskStateInvalid(state, 2)
    /\ state.phase_2_question_count = 2
    /\ Len(state.phase_2_questions) = 1
    /\ Len(state.phase_2_answers) = 1

\* the decision whether a message starts an interview, as a function of
\* the conversation, the message and the judgment of the classification
NextTopic ==
    \/ \E found \in BOOLEAN, phase \in ExplorationPhases, recent \in 0..RecentWindow,
          indicator \in BOOLEAN, j \in Judgments :
           ShouldTriggerExploration(found, phase, recent, indicator, j)
    \/ \E f \in BOOLEAN, t \in BOOLEAN, indicator \in BOOLEAN, j \in Judgments,
          ok \in BOOLEAN :
           KnowledgeGatheringDecision(f, t, indicator, j, ok)

SpecTopic == Init /\ [][NextTopic]_vars

\* the message meets earlier messages, contains no explicit indicator, and
\* is judged a new topic with a confidence below the threshold
LowConfidenceNewTopic ==
    /\ td.path # "none"
    /\ td.recent_messages > 0
    /\ ~td.indicator
    /\ td.judgment.is_new_topic
    /\ td.judgment.confidence < ConfidenceThreshold

\* C24: on a non-empty conversation without an explicit new-topic phrase a
\* "new topic" classification is acted on only when its confidence is at
\* least 0.7: a classification with is_new_topic = true and confidence
\* below 0.7 never starts a new interview, on any path that decides
\* whether to start one.
C24_LowConfidenceNeverStarts ==
    LowConfidenceNewTopic => ~td.starts

\* the scorer as a function of the lens, the age and the keywords
NextSkill ==
    \E lens \in Lenses, child_age \in Ages, issue_keywords \in SUBSET Words :
        IsApplicable(lens, child_age, issue_keywords)

SpecSkill == Init /\ [][NextSkill]_vars

\* the lens the last call scored
CalledLens == CHOOSE lens \in Lenses : lens.name = sk.lens

\* C25: for every lens and every keyword set, an age outside the inclusive
\* range [min, max] of the lens gives not applicable with score 0,
\* whatever the keyword or best-for overlap; the ages min and max are
\* inside the range (there the score is not forced to 0: the boosted lens
\* is applicable).
C25_AgeOutsideRangeRejected ==
    sk.called =>
        LET lens == CalledLens
            min_age == lens.applicable_ages[1]
            max_age == lens.applicable_ages[2]
        IN /\ (sk.child_age < min_age \/ sk.child_age > max_age)
                 => (~sk.result.is_applicable /\ sk.result.num = 0)
           /\ (sk.child_age \in {min_age, max_age}
                 /\ lower_set(lens.best_for) \cap lower_set(sk.issue_keywords) # {})
                 => (sk.result.is_applicable /\ sk.result.num > 0)

\* the example lens scored at age 25 with the keywords that give 0.8 at
\* age 10
C25_Witness ==
    /\ sk.called /\ sk.lens = "two_keywords" /\ sk.child_age = 25
    /\ sk.issue_keywords = {"tantrum", "discipline"}
    /\ ~sk.result.is_applicable /\ sk.result.num = 0

\* C26: for an age inside the range the relevance equals
\* |keywords \cap lens.keywords| / |lens.keywords| (0 when the lens has no
\* keywords), plus 0.3 when keywords \cap lens.best_for is non-empty,
\* clamped to [0, 1], and the lens is applicable iff the relevance is
\* strictly above 0.2; lens keywords {tantrum, reward}, best_for
\* {discipline}, input {tantrum, discipline} gives 0.8 and applicable.
\* The sets are the lower-cased sets of the scorer.
C26_RelevanceFormula ==
    (sk.called /\ age_in_range(CalledLens, sk.child_age)) =>
        LET lens == CalledLens
            keywords == lower_set(sk.issue_keywords)
            m == Cardinality(keywords \cap lower_set(lens.keywords))
            n == Cardinality(lower_set(lens.keywords))
            boost == keywords \cap lower_set(lens.best_for) # {}
            \* the relevance of the claim as the fraction enum / eden
            eden == IF n = 0 THEN 10 ELSE 10 * n
            sum == (IF n = 0 THEN 0 ELSE 10 * m) + (IF boost THEN 3 * (eden \div 10) ELSE 0)
            enum == IF sum > eden THEN eden ELSE IF sum < 0 THEN 0 ELSE sum
        IN /\ sk.result.num * eden = enum * sk.result.den
           /\ sk.result.is_applicable <=> (10 * enum > 2 * eden)
           /\ (lens.name = "two_keywords" /\ sk.issue_keywords = {"tantrum", "discipline"})
                 => (10 * sk.result.num = 8 * sk.result.den /\ sk.result.is_applicable)

\* the example of the claim: relevance 0.8 at age 10
C26_Witness ==
    /\ sk.called /\ sk.lens = "two_keywords" /\ sk.child_age = 10
    /\ sk.issue_keywords = {"tantrum", "discipline"}
    /\ 10 * sk.result.num = 8 * sk.result.den
    /\ sk.result.is_applicable

(***************************************************************************)
(* The memory store under every operation that appends to it:  the five    *)
(* add operations of the manager and the post-conversation update.         *)
(***************************************************************************)
NextMemory ==
    \/ mem.uuid < MaxIds /\ AddBehavioralPattern("daily", {"bedtime"}, "mild", "-")
    \/ mem.uuid < MaxIds /\ AddDevelopmentalMilestone(0)
    \/ mem.uuid < MaxIds /\ AddSuccessfulIntervention(0)
    \/ mem.uuid < MaxIds /\ AddTriggerResponse(0)
    \/ mem.uuid < MaxIds /\ \E date \in 0..1 : AddTimelineEvent(date)
    \/ \E extracted \in Extractions : UpdateMemoryFromConversation(extracted)

SpecMemory == Init /\ [][NextMemory]_vars

\* the number of records stored under a memory type
RecordCount(store, memory_type) ==
    Cardinality({r \in store : r.memory_type = memory_type})

\* a step of an operation that appended something
AppendStep ==
    /\ mem' # mem
    /\ \E t \in MemoryTypes : mem'.last.appends[t] > 0

\* C27: an operation that appends to an append-only memory type makes the
\* number of records of every type it appended to grow by exactly the
\* number of items it appended, and leaves every record stored before in place with its value.
C27_AppendsGrowRecordCount ==
    [][AppendStep =>
          /\ \A t \in MemoryTypes :
                mem'.last.appends[t] > 0 =>
                    RecordCount(mem'.store, t)
                        = RecordCount(mem.store, t) + mem'.last.appends[t]
          /\ mem.store \subseteq mem'.store]_vars

(***************************************************************************)
(* One child's behavioural patterns under add and update, with the clock   *)
(* moving between the operations.                                          *)
(***************************************************************************)
\* the arguments a caller may pass to update_behavioral_pattern: a time
\* of observation alone, new triggers alone, or the three descriptive
\* fields
UpdateArgs ==
    {[NoArgs EXCEPT !.last_observed = t] : t \in Times}
        \cup {[NoArgs EXCEPT !.new_triggers = ts] :
                  ts \in {{"screens"}, {"bedtime", "hunger"}}}
        \cup {[NoArgs EXCEPT !.frequency = "weekly", !.severity = "severe",
                             !.notes = "worse on school days"]}

NextPattern ==
    \/ Tick
    \/ /\ mem.uuid < MaxPatterns
       /\ AddBehavioralPattern("daily", {"bedtime", "screens"}, "mild", "-")
    \/ \E n \in 1..MaxPatterns, args \in UpdateArgs :
          UpdateBehavioralPattern(UuidKey(n), args)

SpecPattern == Init /\ [][NextPattern]_vars

\* a step of update_behavioral_pattern that found the pattern
UpdateStep ==
    /\ mem'.clock = mem.clock
    /\ mem'.last.op = "update_behavioral_pattern"
    /\ mem'.last.ok

\* the pattern the last operation addressed, before and after the step
PatternBefore == get_long_term_memory(mem.store, ChildA, "behavioral_patterns", mem'.last.key)
PatternAfter == get_long_term_memory(mem'.store, ChildA, "behavioral_patterns", mem'.last.key)

\* C28: update_behavioral_pattern leaves the stored triggers equal to the
\* union of the triggers stored before and the new ones, and every field
\* the call did not supply keeps its value; no other record changes.
C28_UpdateMergesTriggers ==
    [][UpdateStep =>
          LET args == mem'.last.args IN
          /\ PatternAfter.triggers = PatternBefore.triggers \cup args.new_triggers
          /\ args.frequency = "-" => PatternAfter.frequency = PatternBefore.frequency
          /\ args.severity = "-" => PatternAfter.severity = PatternBefore.severity
          /\ args.notes = "-" => PatternAfter.notes = PatternBefore.notes
          /\ args.last_observed = 0 =>
                PatternAfter.last_observed = PatternBefore.last_observed
          /\ PatternAfter.first_observed = PatternBefore.first_observed
          /\ \A r \in mem.store : r.key # mem'.last.key => r \in mem'.store]_vars

\* an update with new triggers met stored triggers it did not name, and
\* supplied no frequency
C28_Witness ==
    /\ mem.last.op = "update_behavioral_pattern"
    /\ mem.last.ok
    /\ mem.last.args.new_triggers = {"bedtime", "hunger"}
    /\ mem.last.args.frequency = "-"
    /\ mem.clock > 1
    /\ get_long_term_memory(mem.store, ChildA, "behavioral_patterns", mem.last.key).triggers
          = {"bedtime", "screens", "hunger"}

\* C29: no add or update moves last_observed of a pattern back, and it is
\* never earlier than first_observed (duration_days is never negative).
C29_LastObservedAdvances ==
    [][(mem'.clock = mem.clock /\ mem'.last.ok) =>
          /\ PatternBefore.kind # "none" =>
                PatternAfter.last_observed >= PatternBefore.last_observed
          /\ PatternAfter.last_observed >= PatternAfter.first_observed]_vars

(***************************************************************************)
(* The temporal analysis over every search result of the bounds: patterns  *)
(* on either side of the midpoint and of the start of the window.          *)
(***************************************************************************)
NextTrend ==
    \E days_back \in AnalysisWindows, recent \in 0..MaxPerHalf,
       older \in 0..MaxPerHalf, stale \in 0..1 :
       \E recent_age \in {0, days_back \div 2},
          older_age \in {(days_back \div 2) + 1, days_back} :
          GetTemporalPatternAnalysis(
              SearchResult(recent, recent_age, older, older_age, stale, days_back),
              days_back)

SpecTrend == Init /\ [][NextTrend]_vars

\* the patterns of the last analysis observed within n days before now
ObservedWithin(n) ==
    Cardinality({i \in DOMAIN mem.analysis.ages : mem.analysis.ages[i] <= n})

RecentCount == ObservedWithin(mem.analysis.days_back \div 2)
OlderCount == ObservedWithin(mem.analysis.days_back) - RecentCount

\* C30: the trend is "insufficient_data" when fewer than 2 patterns fall in
\* the window, else "increasing" iff recent > 1.5 x older, else
\* "decreasing" iff older > 1.5 x recent, else "stable".
C30_TrendLabel ==
    mem.analysis.called =>
        mem.analysis.trend =
            IF RecentCount + OlderCount < 2 THEN "insufficient_data"
            ELSE IF 2 * RecentCount > 3 * OlderCount THEN "increasing"
            ELSE IF 2 * OlderCount > 3 * RecentCount THEN "decreasing"
            ELSE "stable"

\* 10 patterns in the recent half of a 90-day window and 2 in the older
\* half were labelled increasing
C30_Witness ==
    /\ mem.analysis.called
    /\ mem.analysis.days_back = 90
    /\ RecentCount = 10
    /\ OlderCount = 2
    /\ mem.analysis.trend = "increasing"

(***************************************************************************)
(* Erase-all after the write paths: the manager's appends and the          *)
(* post-conversation update for ChildA, closed by one erase.               *)
(***************************************************************************)
Erased == mem.last.op = "delete_all_child_memories"

NextErase ==
    \/ ~Erased /\ mem.uuid < MaxErased /\ AddTimelineEvent(0)
    \/ ~Erased /\ UpdateMemoryFromConversation(
                      [should_remember |-> TRUE, life_events |-> 1, behaviors |-> 1,
                       family_context |-> {"siblings"},
                       emotional_triggers |-> {"noise"}])
    \/ ~Erased /\ DeleteAllChildMemories(ChildA)

SpecErase == Init /\ [][NextErase]_vars

\* C31: after erase-all for a child, listing each known memory type of the
\* child returns nothing, however many records each namespace held.
C31_EraseAllClearsEveryNamespace ==
    Erased =>
        \A t \in MemoryTypes :
            list_memories(mem.store, mem.last.child_id, t, ListLimit) = {}

(***************************************************************************)
(* The operations of the backends issued for two children over two memory  *)
(* types, two keys and two values.                                         *)
(***************************************************************************)
StoreTypes == {"behavioral_patterns", "timeline_events"}
StoreKeys == {MainKey, UuidKey(1)}
StoreData == {BehavioralPattern("daily", {"bedtime"}, "mild", 1, "-"),
              DatedRecord("timeline_event", 1)}

NextStore ==
    \/ \E c \in Children, t \in StoreTypes, k \in StoreKeys, d \in StoreData :
          /\ Cardinality(save_long_term_memory(mem.store, c, t, k, d)) <= MaxHeld
          /\ SaveLongTermMemory(c, t, k, d)
    \/ \E c \in Children, t \in StoreTypes, k \in StoreKeys :
          GetLongTermMemory(c, t, k)
    \/ \E c \in Children, t \in StoreTypes : ListMemories(c, t)
    \/ \E c \in Children, ts \in {{}, {"behavioral_patterns"}, StoreTypes} :
          SearchMemories(c, ts)
    \/ \E c \in Children, t \in StoreTypes, k \in StoreKeys :
          DeleteMemory(c, t, k)
    \/ \E c \in Children : DeleteAllChildMemories(c)

SpecStore == Init /\ [][NextStore]_vars

\* the records of the store outside the namespaces an operation names
Outside(store, child_id, memory_types) ==
    {r \in store : r.child_id # child_id \/ r.memory_type \notin memory_types}

\* the memory types the last operation covers
TypesCovered(last) ==
    IF last.memory_types # {} THEN last.memory_types ELSE MemoryTypes

\* C32: an operation of the backends issued for a child and memory types
\* returns only records of that child and those types, and neither
\* changes nor deletes a record of another child or another type.
C32_NamespaceScoping ==
    [][mem'.last.child_id # 0 =>
          LET last == mem'.last IN
          /\ \A r \in last.returned :
                /\ r \in mem.store
                /\ r.child_id = last.child_id
                /\ r.memory_type \in TypesCovered(last)
          /\ (last.op = "get_long_term_memory" /\ last.data # NoValue) =>
                \E r \in mem.store :
                    /\ r.child_id = last.child_id
                    /\ r.memory_type \in last.memory_types
                    /\ r.key = last.key
                    /\ r.value = last.data
          /\ Outside(mem'.store, last.child_id, TypesCovered(last))
                = Outside(mem.store, last.child_id, TypesCovered(last))]_vars

\* a search for ChildA restricted to one memory type returned a record
\* while the other child held a record of the same type and key and
\* ChildA held a record of another type
C32_Witness ==
    /\ mem.last.op = "search_memories"
    /\ mem.last.child_id = ChildA
    /\ mem.last.memory_types = {"behavioral_patterns"}
    /\ mem.last.returned # {}
    /\ \E r \in mem.store : r.child_id = ChildB /\ r.memory_type = "behavioral_patterns"
    /\ \E r \in mem.store : r.child_id = ChildA /\ r.memory_type = "timeline_events"

\* C34: after save_long_term_memory(child, type, key, data) the get of the
\* same (child, type, key) returns data, and after delete_memory of the
\* key it returns None.
C34_SaveGetDeleteRoundTrip ==
    [][LET last == mem'.last
           found == get_long_term_memory(mem'.store, last.child_id,
                        CHOOSE t \in last.memory_types : TRUE, last.key)
       IN /\ last.op = "save_long_term_memory" => found = last.data
          /\ last.op = "delete_memory" => found = NoValue]_vars

\* a save left its value under a key that the other child holds with
\* another value
C34_Witness ==
    /\ mem.last.op = "save_long_term_memory"
    /\ get_long_term_memory(mem.store, mem.last.child_id,
           CHOOSE t \in mem.last.memory_types : TRUE, mem.last.key) = mem.last.data
    /\ \E r \in mem.store :
          /\ r.child_id # mem.last.child_id
          /\ r.memory_type \in mem.last.memory_types
          /\ r.key = mem.last.key
          /\ r.value # mem.last.data

(***************************************************************************)
(* The two agent calls of the analysis stage taken in either order.        *)
(***************************************************************************)
NextDispatch ==
    \/ \E current_concern \in Concerns, child_age \in 0..MaxAge :
          RouteToAgents(current_concern, child_age)
    \/ CallBehaviorAnalyst
    \/ CallMaterialConsultant

SpecDispatch == Init /\ [][NextDispatch]_vars

BothCallsDone == an.done = {"call_behavior_analyst", "call_material_consultant"}

\* C33: the pattern-analysis call and the recommendation call are
\* independent: once both are done the state is the same whichever ran
\* first.
C33_AgentCallsIndependent ==
    BothCallsDone =>
        /\ an.state = call_material_consultant(call_behavior_analyst(an.routed))
        /\ an.state = call_behavior_analyst(call_material_consultant(an.routed))

Released == \E i \in DOMAIN gate.filtered_content :
                \E j \in DOMAIN gate.content : gate.filtered_content[i] = gate.content[j]

\* C36: a review resumed with anything but an approve or an edit decision
\* (a reject, no decision, a type that is none of the three) does not
\* release the content that was under review.
C36_ReleaseOnlyOnApproveOrEdit ==
    (gate.was_interrupted /\ gate.human_decision.type \notin {"approve", "edit"})
        => ~Released

PhaseIndex(s, phase) ==
    IF phase = 1 THEN s.phase_1_current_index ELSE s.phase_2_current_index

\* C38: in every reachable workflow state and for each phase, the number of
\* recorded answers equals the phase's current index, and the i-th recorded
\* answer is paired with the i-th question of the phase's question list.
C38_AnswersAlignedWithQuestions ==
    \A phase \in {1, 2} :
        /\ Len(PhaseAnswers(state, phase)) = PhaseIndex(state, phase)
        /\ \A i \in 1..Len(PhaseAnswers(state, phase)) :
              /\ i <= Len(PhaseQuestions(state, phase))
              /\ PhaseAnswers(state, phase)[i].question = PhaseQuestions(state, phase)[i]

\* both phases have recorded answers, phase 1 completely and phase 2 up to
\* its second question
C38_Witness ==
    /\ state.phase_1_current_index = state.phase_1_question_count
    /\ Len(state.phase_1_answers) >= 2
    /\ state.phase_1_answers[2].question = state.phase_1_questions[2]
    /\ state.phase_2_current_index = 2
    /\ Len(state.phase_2_answers) = 2
    /\ state.phase_2_answers[2].question = state.phase_2_questions[2]

(***************************************************************************)
(* Timestamps of the records under behavioral_patterns.                    *)
(***************************************************************************)
\* datetime.fromisoformat(pattern.get(field, "")) returns a date: the field
\* is present (0 is the absent field, read as "")
Parseable(date) == date # 0

\* C39: every record stored under (entity, behavioral_patterns) by any write
\* path of the system carries parseable first_observed and last_observed
\* timestamps, so the temporal analysis and the recurrence analysis never
\* fail on a record the system itself stored.
C39_PatternRecordsCarryTimestamps ==
    \A r \in mem.store :
        r.memory_type = "behavioral_patterns" =>
            /\ Parseable(r.value.first_observed)
            /\ Parseable(r.value.last_observed)

(***************************************************************************)
(* Concurrent callers of get_store.                                        *)
(***************************************************************************)
NextGetStore ==
    \E c \in Callers :
        \/ GetStore(c)
        \/ AcquireStoreLock(c)
        \/ EnterStore(c)
        \/ SetupStore(c)
        \/ UseStore(c)

SpecGetStore == Init /\ [][NextGetStore]_vars

====
